---- MODULE Spec2Model ----
(***************************************************************************)
(* A model of choc::ui::WebView (src/gui/choc_WebView.h): the registry of  *)
(* bound functions, the invokeBinding entry point, the script evaluation   *)
(* channel and the page-side shim that bind() injects, for the three       *)
(* engine adapters (Linux/WebKitGTK, Apple/WKWebView, Windows/WebView2).   *)
(*                                                                         *)
(* The browser engine is the environment: it accepts or refuses a request, *)
(* runs accepted scripts in the order it received them, delivers posted    *)
(* messages and evaluation completions whenever it likes, also after the   *)
(* native view has been destroyed.                                         *)
(***************************************************************************)
EXTENDS Integers, Sequences, FiniteSets, TLC

\* ------------------------------------------------------------------ bounds
MaxQueue == 2          \* scripts the engine holds when it accepts one more
MaxMessageID == 3      \* the page stops calling shims at this counter value
MaxCalls == 1          \* shim calls per page where replies are followed
MaxInFlight == 1       \* posted messages not yet delivered to native code
MaxPageLoads == 1      \* page replacements (navigation commits, reloads)
MaxEvaluations == 1    \* evaluateJavascript calls made by the application
MaxURILen == 3         \* characters of Options::customSchemeURI
MaxInitScripts == 2    \* shim init scripts installed for one name
MaxMessages == 3       \* messages the constructor's wait loop dispatches
MaxSelfCalls == 3      \* nested calls of navigate followed before giving up

\* ------------------------------------------------------------- input sets
Platforms == {"linux", "apple", "windows"}
BuiltinNames == {"juce_enableKeyEvents", "juce_onKeyDown", "juce_onKeyUp"}
\* a constructor without its last bind call
BuiltinOrderShort == <<"juce_enableKeyEvents", "juce_onKeyDown">>
BuiltinOrder == <<"juce_enableKeyEvents", "juce_onKeyDown", "juce_onKeyUp">>
UserNames == {"f"}
Names == BuiltinNames \cup UserNames
UserCallbacks == {"c1", "c2"}

\* choc::value::Value results a bound callback can return
VoidValue == [t |-> "void", v |-> 0]
Int64Value(n) == [t |-> "int64", v |-> n]
Values == {VoidValue, Int64Value(7)}

\* what the engine can do with a read of freed memory
UBOutcomes == {"benign", "crash"}

\* how one invocation of an application callback can end
CallbackOutcomes == {"return", "throw_std", "throw_other"}

\* Options::Resource values a resolver returns: bytes and a MIME type
Resources == {[data |-> <<1, 2>>, mimeType |-> "text/html"],
              [data |-> <<>>, mimeType |-> "image/png"]}
\* Resource (): what Pimpl::pageHTML holds before the first setHTML
EmptyResource == [data |-> <<>>, mimeType |-> ""]
\* pages the application passes to setHTML
HTMLs == {<<60, 62>>, <<60, 33, 62>>}
\* URLs the application passes to navigate: the empty URL, a page under the
\* home URI
URLs == {"", "page"}
\* the path of the reserved URI of the Windows adapter
ReservedPath == "/getHTMLInternal"
\* paths a showing document asks for
SubPaths == {"/a.js", ReservedPath}

\* engine acceptance of the three bind() calls of the constructor
CtorAccepts == {<<TRUE, TRUE, TRUE>>, <<TRUE, FALSE, TRUE>>}

\* -------------------------------------------------------------- variables
VARIABLES
    platform,     \* the adapter compiled into this build
    loaded,       \* Pimpl::loadedOK() at the end of construction
    pimpl,        \* WebView::pimpl: "live" or "null"
    destroyed,    \* ~WebView has run
    deleted,      \* DeletionChecker::deleted of the adapter
    crashed,      \* the process died on a read of freed memory
    bindings,     \* WebView::bindings, a set of <<name, callback>> pairs
    initScripts,  \* shim init scripts installed in the engine, per name
    queue,        \* scripts the engine accepted and has not run yet
    navPending,   \* the engine holds a load request
    pageGen,      \* number of page replacements so far
    pageFns,      \* per name N, the shim functions a call of window[N] runs
    messageID,    \* window._fnBindings.messageID, 0 when undefined
    promise,      \* per id: the promise and its {resolve, reject} entry
    inflight,     \* messages posted by shims, not yet delivered
    handled,      \* per id of this page: what invokeBinding did for it
    cleanLoad,    \* no page replacement happened with a call in flight
    evals,        \* per evaluateJavascript call of the application
    removed,      \* names whose delete script ran with the name unbound
    resolver,     \* Options::fetchResource is a non-empty function
    navTarget,    \* the load the engine was last asked for and has not begun
    pageHTML,     \* Pimpl::pageHTML of the Windows adapter
    served,       \* a document answered by the request handler is showing
    firstPath,    \* the path of the first call of the resolver, "" before
    movedTo,      \* the WebView this one was moved into, once it was
    handshake,    \* the Windows adapter's wait for its engine, see below
    keyListeners, \* Pimpl::keyListeners of the Windows adapter
    last          \* what the last operation or handler did

vars == <<platform, loaded, pimpl, destroyed, deleted, crashed, bindings,
          initScripts, queue, navPending, pageGen, pageFns, messageID,
          promise, inflight, handled, cleanLoad, evals, removed, resolver,
          navTarget, pageHTML, served, firstPath, movedTo,
          handshake, keyListeners, last>>

resVars == <<resolver, navTarget, pageHTML, served, firstPath>>

viewVars == <<pimpl, destroyed, deleted, bindings>>
pageVars == <<pageGen, pageFns, messageID, promise, handled, cleanLoad>>

\* ------------------------------------------------- std::unordered_map ops
MapFind(b, name) == {p \in b : p[1] = name}
\* an insertion that keeps what the name held before: what operator[]
\* assignment is not
MapEmplace(b, name, cb) == b \cup {<<name, cb>>}
\* bindings[functionName] = std::move (fn)
MapAssign(b, name, cb) == {p \in b : p[1] # name} \cup {<<name, cb>>}
MapErase(b, name) == {p \in b : p[1] # name}
MapNames(b) == {p[1] : p \in b}

\* ---------------------------------------------------------------- scripts
NoValue == [t |-> "none", v |-> 0]
\* choc::json::toString (result): the JSON text is represented by the value
\* it denotes, tagged as text
toString(value) == [t |-> "json", v |-> value]
\* what the page's script engine makes of a JSON literal
JSEval(text) == [t |-> "js", v |-> text.v]

Script(kind, name, id, val, gen, e, cb) ==
    [kind |-> kind, name |-> name, id |-> id, val |-> val, gen |-> gen,
     e |-> e, callback |-> cb]
ShimScript(name) == Script("shim", name, 0, NoValue, 0, 0, FALSE)
DeleteScript(name) == Script("delete", name, 0, NoValue, 0, 0, FALSE)
ResolveScript(id, value, gen) ==
    Script("resolve", "", id, toString(value), gen, 0, FALSE)
RejectScript(id, gen) == Script("reject", "", id, NoValue, gen, 0, FALSE)
UserScript(e, cb) == Script("user", "", 0, NoValue, 0, e, cb)

\* ----------------------------------------------------------- engine adapter
\* Pimpl::evaluateJavascript: Linux and Apple hand the script over and return
\* true; Windows returns whether ExecuteScript answered S_OK.
Pimpl_evaluateJavascript(p, accepts) ==
    CASE p = "linux" -> TRUE
      [] p = "apple" -> TRUE
      [] p = "windows" -> accepts

\* Pimpl::addInitScript: Linux returns manager != nullptr, which holds for a
\* loaded view; Apple returns whether a WKUserScript was created; Windows
\* whether AddScriptToExecuteOnDocumentCreated answered S_OK.
Pimpl_addInitScript(p, accepts) ==
    CASE p = "linux" -> TRUE
      [] p = "apple" -> accepts
      [] p = "windows" -> accepts

\* Pimpl::navigate: the empty URL navigates to defaultURI.
Pimpl_navigate(p, accepts) ==
    CASE p = "linux" -> TRUE
      [] p = "apple" -> accepts
      [] p = "windows" -> accepts

\* Pimpl::setHTML: Windows stores the page and ignores navigate's result.
Pimpl_setHTML(p, accepts) ==
    CASE p = "linux" -> TRUE
      [] p = "apple" -> accepts
      [] p = "windows" -> TRUE

\* The engine answers that matter to an adapter operation: one answer when
\* the adapter's result does not depend on it.
Answers(p, op) ==
    LET same == CASE op = "evaluate" ->
                       Pimpl_evaluateJavascript(p, TRUE) = Pimpl_evaluateJavascript(p, FALSE)
                  [] op = "init" ->
                       Pimpl_addInitScript(p, TRUE) = Pimpl_addInitScript(p, FALSE)
                  [] op = "navigate" ->
                       Pimpl_navigate(p, TRUE) = Pimpl_navigate(p, FALSE)
                  [] OTHER ->
                       Pimpl_setHTML(p, TRUE) = Pimpl_setHTML(p, FALSE)
    IN  IF same THEN {TRUE} ELSE BOOLEAN

\* an adapter that registers a completion callback with every evaluation
CompletionCallbackAlways(hasHandler) == TRUE
\* Whether a native completion callback is registered with the evaluation:
\* only when the application passed a non-empty handler.
CompletionCallback(hasHandler) == hasHandler

\* ------------------------------------------------------ WebView forwarding
loadedOK(pm) == pm # "null"
\* a forwarding call that does not test the adapter pointer
navigateUnguarded(pm, p, accepts) == Pimpl_navigate(p, accepts)
navigate(pm, p, accepts) == pm # "null" /\ Pimpl_navigate(p, accepts)
setHTML(pm, p, accepts) == pm # "null" /\ Pimpl_setHTML(p, accepts)
addInitScript(pm, p, accepts) == pm # "null" /\ Pimpl_addInitScript(p, accepts)
evaluateJavascript(pm, p, accepts) ==
    pm # "null" /\ Pimpl_evaluateJavascript(p, accepts)

\* a bind that stores the callback before it asks the engine
bindAssigningFirst(pm, p, b, name, cb, a1, a2) ==
    IF pm = "null"
    THEN [ret |-> FALSE, bindings |-> b, installed |-> FALSE,
          handed |-> FALSE, accepted |-> FALSE]
    ELSE LET installed == addInitScript(pm, p, a1)
             accepted == installed /\ evaluateJavascript(pm, p, a2)
         IN  [ret |-> accepted,
              bindings |-> MapAssign(b, name, cb),
              installed |-> installed,
              handed |-> installed,
              accepted |-> accepted]

\* WebView::bind: what one call does to the registry and hands to the engine.
\* a1, a2: whether the engine would accept the init script, the evaluation.
bind(pm, p, b, name, cb, a1, a2) ==
    IF pm = "null"
    THEN [ret |-> FALSE, bindings |-> b, installed |-> FALSE,
          handed |-> FALSE, accepted |-> FALSE]
    ELSE LET installed == addInitScript(pm, p, a1)
             accepted == installed /\ evaluateJavascript(pm, p, a2)
         IN  [ret |-> accepted,
              bindings |-> IF accepted THEN MapAssign(b, name, cb) ELSE b,
              installed |-> installed,
              handed |-> installed,
              accepted |-> accepted]

\* an unbind that reports success and forgets bindings.erase (found)
unbindWithoutErase(pm, p, b, name, a) ==
    IF MapFind(b, name) # {}
    THEN [ret |-> TRUE, bindings |-> b, handed |-> pm # "null",
          accepted |-> evaluateJavascript(pm, p, a)]
    ELSE [ret |-> FALSE, bindings |-> b, handed |-> FALSE, accepted |-> FALSE]

\* WebView::unbind: the delete script is evaluated only for a found binding
\* and the result of the evaluation is ignored.
unbind(pm, p, b, name, a) ==
    IF MapFind(b, name) # {}
    THEN [ret |-> TRUE, bindings |-> MapErase(b, name), handed |-> pm # "null",
          accepted |-> evaluateJavascript(pm, p, a)]
    ELSE [ret |-> FALSE, bindings |-> b, handed |-> FALSE, accepted |-> FALSE]

\* ------------------------------------------------------------ construction
\* WebView::WebView: the adapter is created, dropped again when it did not
\* load, and then the three built-in functions are bound in order.
RECURSIVE CtorBind(_, _, _, _, _)
CtorBind(pm, p, acc, i, st) ==
    IF i > Len(BuiltinOrder) THEN st
    ELSE LET n == BuiltinOrder[i]
             r == bind(pm, p, st.bindings, n, n, acc[i], acc[i])
         IN  CtorBind(pm, p, acc, i + 1,
                [bindings |-> r.bindings,
                 installed |-> IF r.installed THEN st.installed \cup {n}
                               ELSE st.installed,
                 queue |-> IF r.accepted THEN Append(st.queue, ShimScript(n))
                           ELSE st.queue])

\* a constructor that keeps the adapter that did not load
PimplKept(ok) == "live"
\* pimpl = std::make_unique<Pimpl> (*this, options);
\* if (! pimpl->loadedOK()) pimpl.reset();
PimplAfterConstruction(ok) == IF ok THEN "live" ELSE "null"

Constructed(p, ok, acc) ==
    CtorBind(PimplAfterConstruction(ok), p, acc, 1,
             [bindings |-> {}, installed |-> {}, queue |-> <<>>])

NoMsg == [json |-> "none", isObject |-> FALSE, fn |-> "<absent>", id |-> -1,
          params |-> <<>>, gen |-> 0]
NoBeh == [outcome |-> "none", result |-> NoValue, torn |-> FALSE]
NoPromise == [st |-> "none", val |-> NoValue, params |-> <<>>, gen |-> 0]
NoHandled == [st |-> "none", cb |-> "", params |-> <<>>, outcome |-> "none",
              result |-> NoValue, accepted |-> FALSE]
NoEval == [st |-> "unused", handler |-> FALSE, calls |-> 0]

\* What the engine hands to the adapter when an evaluation completes: its
\* error (a message, "" for none) and the serialised result. With an error
\* there is no result of the script: the result is absent, empty, null or
\* text the decoder cannot read. "value" is the JSON text of a number.
EngineErrorMessage == "engine error"
ResultTexts == {"absent", "empty", "null", "undecodable", "value"}
EngineReports ==
    {x \in [error : {"", EngineErrorMessage}, result : ResultTexts] :
        x.error = "" \/ x.result # "value"}
NoReport == [error |-> "", result |-> "absent"]

\* The members of the Windows Pimpl that createEmbeddedWebView's wait loop
\* reads and writes, and where the constructor stands: "wait" inside the
\* loop, "ended" behind it, "done" when the WebView constructor has returned.
\* endedBy is what ended the wait, requested that CreateCoreWebView2Controller
\* was called and has not completed, delivered that a completion handed over
\* a controller and a view, messages the number of other window messages the
\* loop has dispatched.
HandshakeStart ==
    [pc |-> "wait", webviewInitialising |-> TRUE,
     coreWebViewEnvironment |-> "null", coreWebView |-> "null",
     requested |-> FALSE, delivered |-> FALSE, endedBy |-> "none",
     messages |-> 0]

\* the same members once the constructor has returned: a Windows adapter that
\* loaded has its environment and view, every other build and a failed
\* Windows adapter has none
HandshakeOver(p, ok) ==
    IF p = "windows" /\ ok
    THEN [HandshakeStart EXCEPT !.pc = "done",
                                !.coreWebViewEnvironment = "env1",
                                !.coreWebView = "view",
                                !.delivered = TRUE, !.endedBy = "created"]
    ELSE [HandshakeStart EXCEPT !.pc = "done", !.webviewInitialising = FALSE]

\* no WebView has been move-constructed or move-assigned from this one
NotMoved == [moved |-> FALSE, pimpl |-> "null", bindings |-> {}]

\* KeyListener objects of the application
Listeners == {"l1", "l2"}
\* no key listener was called
NoKeys == [method |-> "", keyCode |-> 0,
           calls |-> [l \in Listeners |-> 0]]

NoResponse ==
    [kind |-> "none", status |-> 0, contentType |-> "", body |-> <<>>,
     headers |-> {}]
NoLast == [op |-> "construct", name |-> "", cb |-> "", prev |-> "",
           ret |-> FALSE,
           ready |-> FALSE, deletedBefore |-> FALSE, msg |-> NoMsg,
           beh |-> NoBeh, called |-> <<>>, scripts |-> <<>>,
           a1 |-> FALSE, a2 |-> FALSE, e |-> 0, handlerCalled |-> FALSE,
           torn |-> FALSE, escaped |-> FALSE, freed |-> FALSE,
           echoed |-> FALSE, path |-> "", out |-> [kind |-> "none"],
           response |-> NoResponse, resolverCalled |-> FALSE,
           engineOK |-> FALSE, events |-> <<>>, report |-> NoReport,
           error |-> "", value |-> VoidValue, handlerOutcome |-> "none",
           uri |-> <<>>, home |-> <<>>,
           scheme |-> [asserts |-> FALSE, text |-> <<>>], target |-> <<>>,
           hr |-> "", env |-> "null", html |-> <<>>,
           nav |-> [returns |-> FALSE, target |-> <<>>, selfCalls |-> 0],
           listener |-> "", keys |-> NoKeys]

Init ==
    \E p \in Platforms, ok \in BOOLEAN, acc \in CtorAccepts,
       res \in BOOLEAN, nacc \in BOOLEAN :
        LET c == Constructed(p, ok, acc)
            \* if (options.fetchResource) navigate ({});
            nav == ok /\ res /\ Pimpl_navigate(p, nacc)
        IN
        /\ platform = p
        /\ loaded = ok
        /\ pimpl = PimplAfterConstruction(ok)
        /\ destroyed = FALSE
        /\ deleted = ~ok
        /\ crashed = FALSE
        /\ bindings = c.bindings
        /\ initScripts = [n \in Names \cup {"<user>"} |->
                            IF n \in c.installed THEN 1 ELSE 0]
        /\ queue = c.queue
        /\ navPending = nav
        /\ resolver = res
        /\ navTarget = IF nav THEN "ctor" ELSE "none"
        /\ pageHTML = EmptyResource
        /\ served = FALSE
        /\ firstPath = ""
        /\ pageGen = 0
        /\ pageFns = [n \in Names |-> 0]
        /\ messageID = 0
        /\ promise = [i \in 1..MaxMessageID |-> NoPromise]
        /\ inflight = <<>>
        /\ handled = [i \in 1..MaxMessageID |-> NoHandled]
        /\ cleanLoad = TRUE
        /\ evals = [i \in 1..MaxEvaluations |-> NoEval]
        /\ removed = {}
        /\ movedTo = NotMoved
        /\ handshake = HandshakeOver(p, ok)
        /\ keyListeners = {}
        /\ last = NoLast

\* ---------------------------------------------------------- invokeBinding
Msg(json, isObject, fn, id, params, gen) ==
    [json |-> json, isObject |-> isObject, fn |-> fn, id |-> id,
     params |-> params, gen |-> gen]

\* choc::json::parse (msg), json["fn"].getString(): throw for text that is
\* not JSON, for a value that is not an object and for a missing or
\* non-string "fn"; the outer handler swallows the exception.
ParsesWithFn(m) ==
    /\ m.json = "ok"
    /\ m.isObject
    /\ m.fn \notin {"<absent>", "<nonstring>"}

\* json["id"].getWithDefault<int64_t> (0): a missing id reads as 0
CallbackID(m) == IF m.id < 0 THEN 0 ELSE m.id

\* the early return without its test of the id
AbortsOnUnknownNameOnly(callbackID, found) == found = {}
\* if (callbackID == 0 || b == bindings.end()) return;
AbortsSilently(callbackID, found) == callbackID = 0 \/ found = {}

NoEffects == [matched |-> FALSE, called |-> <<>>, scripts |-> <<>>,
              torn |-> FALSE, escaped |-> FALSE, freed |-> FALSE,
              crash |-> FALSE, events |-> <<>>]

Handed(script, accepted) == [script |-> script, accepted |-> accepted]

\* What the callback's return path does: the deleted flag is read through the
\* handler's own copy of the shared pointer, and a set flag ends the call.
AfterReturn(p, id, m, beh, accepts) ==
    IF beh.torn THEN <<>>
    ELSE <<Handed(ResolveScript(id, beh.result, m.gen),
                  evaluateJavascript("live", p, accepts))>>

\* What the handler of std::exception does: it falls through to the reject
\* script and evaluates it through this->pimpl without reading the flag.
\* After ~WebView the pimpl member it reads is null at best.
AfterStdException(p, id, m, beh, accepts) ==
    <<Handed(RejectScript(id, m.gen),
             evaluateJavascript(IF beh.torn THEN "null" ELSE "live", p, accepts))>>

\* The steps of one round trip, in the order they are taken: entering the
\* callback, its return or throw, the submission of a script to the engine.
CallbackEvents(beh) ==
    <<"callbackEntered",
      IF beh.outcome = "return" THEN "callbackReturned" ELSE "callbackThrew">>
SubmitEvents(handedScripts) == [i \in 1..Len(handedScripts) |-> "submit"]

\* a round trip that submits its script before it calls the callback
SubmittedFirst(callEvents, submitEvents) == submitEvents \o callEvents
\* auto result = b->second (json["params"]); ... evaluateJavascript (call);
InOrder(callEvents, submitEvents) == callEvents \o submitEvents

\* WebView::invokeBinding for message m when the bound callback behaves as
\* beh = [outcome, result, torn]: torn says the callback destroyed the view.
invokeBinding(pm, p, b, m, beh, accepts, ub) ==
    IF ~ParsesWithFn(m) THEN NoEffects
    ELSE LET found == MapFind(b, m.fn)
             id == CallbackID(m)
         IN
         IF AbortsSilently(id, found) THEN NoEffects
         ELSE IF pm = "null"
         THEN \* pimpl->deletionChecker through a null pimpl
              [NoEffects EXCEPT !.matched = TRUE, !.freed = TRUE,
                                !.crash = (ub = "crash")]
         ELSE LET cb == (CHOOSE q \in found : TRUE)[2]
                  call == [cb |-> cb, params |-> m.params]
                  base == [NoEffects EXCEPT !.matched = TRUE,
                                            !.called = <<call>>,
                                            !.torn = beh.torn]
              IN
              CASE beh.outcome = "return" ->
                     [base EXCEPT
                        !.scripts = AfterReturn(p, id, m, beh, accepts),
                        !.events =
                            InOrder(CallbackEvents(beh),
                                    SubmitEvents(AfterReturn(p, id, m, beh,
                                                             accepts)))]
                [] beh.outcome = "throw_std" ->
                     [base EXCEPT
                        !.scripts = AfterStdException(p, id, m, beh, accepts),
                        !.events =
                            InOrder(CallbackEvents(beh),
                                    SubmitEvents(AfterStdException(
                                        p, id, m, beh, accepts))),
                        \* evaluateJavascript on the destroyed WebView
                        !.freed = beh.torn,
                        !.crash = beh.torn /\ ub = "crash"]
                [] OTHER ->
                     \* neither handler catches it
                     [base EXCEPT !.escaped = TRUE,
                                  !.events = CallbackEvents(beh)]

\* The built-in callbacks return an empty value and leave the view alone.
BuiltinBehaviour == [outcome |-> "return", result |-> VoidValue, torn |-> FALSE]
Behaviours ==
    [outcome : CallbackOutcomes, result : Values, torn : BOOLEAN]
BehavioursFor(m) ==
    IF m.fn \notin UserNames THEN {BuiltinBehaviour}
    ELSE {x \in Behaviours : x.outcome = "return" \/ x.result = VoidValue}

\* an adapter that puts a new script in front of the ones the engine holds
SubmittedAtFront(held, scripts) == scripts \o held
\* Pimpl::evaluateJavascript passes the script to the engine inside the call:
\* the engine holds it behind the scripts it was given before.
Submitted(held, scripts) == held \o scripts

AcceptedScripts(handedScripts) ==
    [i \in 1..Len(SelectSeq(handedScripts, LAMBDA h : h.accepted)) |->
        SelectSeq(handedScripts, LAMBDA h : h.accepted)[i].script]

\* --------------------------------------------------------- key listeners
\* a removeKeyListener that leaves the listener registered
removeKeyListenerKeeping(pm, p, listeners, l) == listeners
\* WebView::addKeyListener: compiled for Windows only, nothing without an
\* adapter; Pimpl::addKeyListener inserts into the unordered_set.
addKeyListener(pm, p, listeners, l) ==
    IF p = "windows" /\ pm # "null" THEN listeners \cup {l} ELSE listeners
\* WebView::removeKeyListener, Pimpl::removeKeyListener
removeKeyListener(pm, p, listeners, l) ==
    IF p = "windows" /\ pm # "null" THEN listeners \ {l} ELSE listeners

\* args[0].getWithDefault (""): the string, "" (written 0) for a first
\* parameter that is not a string
KeyCode(params) == IF params[1].t = "string" THEN params[1].v ELSE 0

\* Pimpl::onJSKeyDown, Pimpl::onJSKeyUp: one call for each element of
\* keyListeners
onJSKey(method, keyCode, listeners) ==
    [method |-> method, keyCode |-> keyCode,
     calls |-> [l \in Listeners |-> IF l \in listeners THEN 1 ELSE 0]]

\* The constructor's callbacks for juce_onKeyDown and juce_onKeyUp, which
\* call the adapter on Windows and do nothing elsewhere; any other callback
\* calls no key listener.
BuiltinKeyCallback(p, cb, params, listeners) ==
    IF p = "windows" /\ cb = "juce_onKeyDown"
    THEN onJSKey("onKeyDown", KeyCode(params), listeners)
    ELSE IF p = "windows" /\ cb = "juce_onKeyUp"
    THEN onJSKey("onKeyUp", KeyCode(params), listeners)
    ELSE NoKeys

\* The engine's "script message received" event, through the adapter's entry
\* point: Linux disconnects the signal in ~Pimpl, Apple finds no Pimpl behind
\* the delegate after ~Pimpl, Windows calls through ownerPimpl and then posts
\* the message back to the page.
ScriptMessageReceived(m, beh, accepts, ub, rest) ==
    /\ loaded
    /\ ~crashed
    /\ platform = "linux" => ~deleted
    /\ Len(queue) < MaxQueue
    /\ LET dropped == platform = "apple" /\ deleted
           dangling == platform = "windows" /\ deleted
           fx == IF dropped THEN NoEffects
                 ELSE IF dangling
                 THEN [NoEffects EXCEPT !.freed = TRUE, !.crash = (ub = "crash")]
                 ELSE invokeBinding(pimpl, platform, bindings, m, beh, accepts, ub)
       IN
       /\ queue' = Submitted(queue, AcceptedScripts(fx.scripts))
       /\ IF fx.torn
          THEN /\ pimpl' = "null"
               /\ destroyed' = TRUE
               /\ deleted' = TRUE
               /\ bindings' = {}
               /\ keyListeners' = {}
          ELSE UNCHANGED <<viewVars, keyListeners>>
       /\ crashed' = fx.crash
       /\ handled' =
            IF fx.called # <<>> /\ m.gen = pageGen /\ m.id \in DOMAIN handled
            THEN [handled EXCEPT ![m.id] =
                    [st |-> "handled", cb |-> fx.called[1].cb,
                     params |-> fx.called[1].params,
                     outcome |-> beh.outcome, result |-> beh.result,
                     accepted |-> fx.scripts # <<>> /\ fx.scripts[1].accepted]]
            ELSE handled
       /\ last' = [NoLast EXCEPT
                     !.op = "scriptMessage", !.msg = m,
                     !.beh = IF fx.called # <<>> THEN beh ELSE NoBeh,
                     !.ready = pimpl # "null",
                     !.deletedBefore = deleted,
                     !.called = fx.called, !.scripts = fx.scripts,
                     !.torn = fx.torn, !.escaped = fx.escaped,
                     !.freed = fx.freed, !.events = fx.events,
                     !.keys = IF fx.called = <<>> THEN NoKeys
                              ELSE BuiltinKeyCallback(platform,
                                       fx.called[1].cb, fx.called[1].params,
                                       keyListeners),
                     !.echoed = platform = "windows" /\ ~fx.crash /\ ~fx.escaped]
    /\ inflight' = rest
    /\ UNCHANGED resVars
    /\ UNCHANGED <<removed, platform, loaded, movedTo, handshake, initScripts, navPending, pageGen, pageFns,
                   messageID, promise, cleanLoad, evals>>

\* JSON values a page can put into params, and the messages a page script
\* can post by calling the engine's postMessage itself
JSONNumber(n) == [t |-> "number", v |-> n]
JSONString(n) == [t |-> "string", v |-> n]
RawMessages ==
    { Msg("bad", FALSE, "<absent>", -1, <<>>, -1),
      Msg("ok", FALSE, "<absent>", -1, <<>>, -1),
      Msg("ok", TRUE, "<absent>", 2, <<>>, -1),
      Msg("ok", TRUE, "<nonstring>", 2, <<>>, -1),
      Msg("ok", TRUE, "f", -1, <<JSONNumber(1)>>, -1),
      Msg("ok", TRUE, "f", 0, <<JSONNumber(1)>>, -1),
      Msg("ok", TRUE, "g", 2, <<JSONNumber(1)>>, -1),
      Msg("ok", TRUE, "f", 2, <<JSONNumber(1)>>, -1),
      Msg("ok", TRUE, "juce_onKeyDown", 2, <<JSONString(65)>>, -1) }

\* the outcomes of a read of freed memory, where one can happen
UBChoices(beh) == IF deleted \/ beh.torn THEN UBOutcomes ELSE {"benign"}

\* a message that did not come from a shim
DeliverRaw ==
    \E m \in RawMessages, accepts \in Answers(platform, "evaluate") :
        \E beh \in BehavioursFor(m) :
            \E ub \in UBChoices(beh) :
                ScriptMessageReceived(m, beh, accepts, ub, inflight)

\* the oldest message a shim posted
DeliverPosted ==
    /\ inflight # <<>>
    /\ \E accepts \in Answers(platform, "evaluate") :
        \E beh \in BehavioursFor(Head(inflight)) :
            \E ub \in UBChoices(beh) :
                ScriptMessageReceived(Head(inflight), beh, accepts, ub,
                                      Tail(inflight))

\* ------------------------------------------------------ public operations
Callable == ~destroyed /\ ~crashed

Bind ==
    /\ Callable
    /\ Len(queue) < MaxQueue
    /\ \E name \in UserNames, cb \in UserCallbacks,
          a1 \in Answers(platform, "init"), a2 \in Answers(platform, "evaluate") :
        LET r == bind(pimpl, platform, bindings, name, cb, a1, a2) IN
        /\ initScripts[name] < MaxInitScripts
        /\ bindings' = r.bindings
        /\ removed' = IF r.ret THEN removed \ {name} ELSE removed
        /\ initScripts' = IF r.installed
                          THEN [initScripts EXCEPT ![name] = @ + 1]
                          ELSE initScripts
        /\ queue' = IF r.accepted THEN Submitted(queue, <<ShimScript(name)>>)
                    ELSE queue
        /\ last' = [NoLast EXCEPT
                      !.op = "bind", !.name = name, !.cb = cb, !.ret = r.ret,
                      !.prev = IF MapFind(bindings, name) = {} THEN ""
                               ELSE (CHOOSE q \in MapFind(bindings, name) : TRUE)[2],
                      !.ready = pimpl # "null", !.deletedBefore = deleted,
                      !.a1 = Pimpl_addInitScript(platform, a1),
                      !.a2 = Pimpl_evaluateJavascript(platform, a2),
                      !.scripts = IF r.handed
                                  THEN <<Handed(ShimScript(name), r.accepted)>>
                                  ELSE <<>>]
    /\ UNCHANGED resVars
    /\ UNCHANGED <<platform, loaded, movedTo, handshake, keyListeners, pimpl, destroyed, deleted, crashed,
                   navPending, pageGen, pageFns, messageID, promise, inflight,
                   handled, cleanLoad, evals>>

Unbind ==
    /\ Callable
    /\ Len(queue) < MaxQueue
    /\ \E name \in UserNames, a \in Answers(platform, "evaluate") :
        LET r == unbind(pimpl, platform, bindings, name, a) IN
        /\ bindings' = r.bindings
        /\ queue' = IF r.accepted THEN Submitted(queue, <<DeleteScript(name)>>)
                    ELSE queue
        /\ last' = [NoLast EXCEPT
                      !.op = "unbind", !.name = name, !.ret = r.ret,
                      !.prev = IF last.op = "unbind" /\ last.name = name
                                  /\ last.ret
                               THEN "unbound" ELSE "",
                      !.ready = pimpl # "null", !.deletedBefore = deleted,
                      !.scripts = IF r.handed
                                  THEN <<Handed(DeleteScript(name), r.accepted)>>
                                  ELSE <<>>]
    /\ UNCHANGED resVars
    /\ UNCHANGED <<removed, platform, loaded, movedTo, handshake, keyListeners, pimpl, destroyed, deleted, crashed,
                   initScripts, navPending, pageGen, pageFns, messageID,
                   promise, inflight, handled, cleanLoad, evals>>

\* Pimpl::navigate: if (url.empty()) return navigate (defaultURI);
NavigateTarget(url) == IF url = "" THEN "home" ELSE url

Navigate ==
    /\ Callable
    /\ \E url \in URLs, accepts \in Answers(platform, "navigate") :
        LET r == navigate(pimpl, platform, accepts) IN
        /\ navPending' = (navPending \/ r)
        /\ navTarget' = IF r THEN NavigateTarget(url) ELSE navTarget
        /\ last' = [NoLast EXCEPT !.op = "navigate", !.ret = r,
                                  !.name = url,
                                  !.ready = pimpl # "null",
                                  !.deletedBefore = deleted]
    /\ UNCHANGED <<resolver, served, firstPath, pageHTML>>
    /\ UNCHANGED <<removed, platform, loaded, movedTo, handshake, keyListeners, pimpl, destroyed, deleted, crashed,
                   bindings, initScripts, queue, pageGen, pageFns, messageID,
                   promise, inflight, handled, cleanLoad, evals>>

\* Pimpl::setHTML: Linux and Apple hand the page to the engine; Windows
\* stores it in pageHTML and navigates to the reserved URI.
SetHTML ==
    /\ Callable
    /\ \E html \in HTMLs, accepts \in Answers(platform, "navigate") :
        LET r == setHTML(pimpl, platform, accepts)
            begun == r /\ Pimpl_navigate(platform, accepts)
        IN
        /\ navPending' = (navPending \/ begun)
        /\ navTarget' = IF begun THEN "html" ELSE navTarget
        /\ pageHTML' = IF r /\ platform = "windows"
                       THEN [data |-> html, mimeType |-> "text/html"]
                       ELSE pageHTML
        /\ last' = [NoLast EXCEPT !.op = "setHTML", !.ret = r,
                                  !.html = html, !.a1 = accepts,
                                  !.ready = pimpl # "null",
                                  !.deletedBefore = deleted]
    /\ UNCHANGED <<resolver, served, firstPath>>
    /\ UNCHANGED <<removed, platform, loaded, movedTo, handshake, keyListeners, pimpl, destroyed, deleted, crashed,
                   bindings, initScripts, queue, pageGen, pageFns, messageID,
                   promise, inflight, handled, cleanLoad, evals>>

\* a script of the application's own: it defines no shim
AddInitScript ==
    /\ Callable
    /\ \E accepts \in Answers(platform, "init") :
        LET r == addInitScript(pimpl, platform, accepts) IN
        /\ initScripts' = IF r THEN [initScripts EXCEPT !["<user>"] = 1]
                          ELSE initScripts
        /\ last' = [NoLast EXCEPT !.op = "addInitScript", !.ret = r,
                                  !.ready = pimpl # "null",
                                  !.deletedBefore = deleted]
    /\ UNCHANGED resVars
    /\ UNCHANGED <<removed, platform, loaded, movedTo, handshake, keyListeners, pimpl, destroyed, deleted, crashed,
                   bindings, queue, navPending, pageGen, pageFns, messageID,
                   promise, inflight, handled, cleanLoad, evals>>

FreeEvals == {e \in DOMAIN evals : evals[e].st = "unused"}

EvaluateJavascript ==
    /\ Callable
    /\ Len(queue) < MaxQueue
    /\ FreeEvals # {}
    /\ \E hasHandler \in BOOLEAN, accepts \in Answers(platform, "evaluate") :
        LET r == evaluateJavascript(pimpl, platform, accepts)
            e == CHOOSE x \in FreeEvals : \A y \in FreeEvals : x <= y
            s == UserScript(e, CompletionCallback(hasHandler))
        IN
        /\ queue' = IF r THEN Submitted(queue, <<s>>) ELSE queue
        /\ evals' = IF r THEN [evals EXCEPT ![e] = [st |-> "queued",
                                                   handler |-> hasHandler,
                                                   calls |-> 0]]
                    ELSE evals
        /\ last' = [NoLast EXCEPT !.op = "evaluateJavascript", !.ret = r,
                                  !.ready = pimpl # "null",
                                  !.deletedBefore = deleted,
                                  !.e = IF r THEN e ELSE 0,
                                  !.scripts = IF pimpl # "null"
                                              THEN <<Handed(s, r)>> ELSE <<>>]
    /\ UNCHANGED resVars
    /\ UNCHANGED <<removed, platform, loaded, movedTo, handshake, keyListeners, pimpl, destroyed, deleted, crashed,
                   bindings, initScripts, navPending, pageGen, pageFns,
                   messageID, promise, inflight, handled, cleanLoad>>

KeyListenerStep(op, l, listeners) ==
    /\ keyListeners' = listeners
    /\ last' = [NoLast EXCEPT !.op = op, !.listener = l,
                              !.ready = pimpl # "null",
                              !.deletedBefore = deleted]
    /\ UNCHANGED resVars
    /\ UNCHANGED <<removed, platform, loaded, movedTo, handshake, pimpl,
                   destroyed, deleted, crashed, bindings, initScripts, queue,
                   navPending, pageGen, pageFns, messageID, promise,
                   inflight, handled, cleanLoad, evals>>

AddKeyListener ==
    /\ Callable
    /\ \E l \in Listeners :
        KeyListenerStep("addKeyListener", l,
                        addKeyListener(pimpl, platform, keyListeners, l))

RemoveKeyListener ==
    /\ Callable
    /\ \E l \in Listeners :
        KeyListenerStep("removeKeyListener", l,
                        removeKeyListener(pimpl, platform, keyListeners, l))

\* the messages the shims of juce_onKeyDown and juce_onKeyUp post for a key,
\* and ones a page script posts in their name
KeyMessages ==
    { Msg("ok", TRUE, "juce_onKeyDown", 2, <<JSONString(65)>>, -1),
      Msg("ok", TRUE, "juce_onKeyUp", 3, <<JSONString(66)>>, -1),
      Msg("ok", TRUE, "juce_onKeyDown", 3, <<JSONNumber(1)>>, -1),
      Msg("ok", TRUE, "juce_onKeyUp", 0, <<JSONString(65)>>, -1) }

DeliverKey ==
    \E m \in KeyMessages, accepts \in Answers(platform, "evaluate") :
        ScriptMessageReceived(m, BuiltinBehaviour, accepts, "benign",
                              inflight)

\* a moved-from registry that keeps its entries
MovedFromBindingsKept(b) == b
\* The registry of a moved-from WebView: the defaulted move operations move
\* the unordered_map, which hands its nodes over and is left empty.
MovedFromBindings(b) == {}

\* WebView (WebView&&) = default, with this view as the source: its pimpl and
\* its registry go to the new object. The adapter lives on in the new object
\* and its owner reference still designates this one, so the engine's
\* messages keep arriving here.
MoveFrom ==
    /\ Callable
    /\ pimpl = "live"
    /\ pimpl' = "null"
    /\ bindings' = MovedFromBindings(bindings)
    /\ movedTo' = [moved |-> TRUE, pimpl |-> pimpl, bindings |-> bindings]
    /\ keyListeners' = {}
    /\ last' = [NoLast EXCEPT !.op = "move", !.ready = TRUE,
                              !.deletedBefore = deleted]
    /\ UNCHANGED resVars
    /\ UNCHANGED <<removed, platform, loaded, handshake, destroyed, deleted, crashed,
                   initScripts, queue, navPending, pageGen, pageFns,
                   messageID, promise, inflight, handled, cleanLoad, evals>>

\* ~WebView, called by the application outside any callback
Teardown ==
    /\ Callable
    /\ pimpl' = "null"
    /\ destroyed' = TRUE
    /\ deleted' = TRUE
    /\ bindings' = {}
    /\ keyListeners' = {}
    /\ last' = [NoLast EXCEPT !.op = "destroy", !.ready = pimpl # "null",
                              !.deletedBefore = deleted]
    /\ UNCHANGED resVars
    /\ UNCHANGED <<removed, platform, loaded, movedTo, handshake, crashed, initScripts, queue, navPending,
                   pageGen, pageFns, messageID, promise, inflight, handled,
                   cleanLoad, evals>>

\* ------------------------------------------------------ resource requests
\* How one call of the resolver can end
ResolverOutcomes ==
    {[kind |-> "resource", res |-> r] : r \in Resources}
        \cup {[kind |-> "nothing"], [kind |-> "throw_std"],
              [kind |-> "throw_other"]}

\* Calling an empty std::function throws std::bad_function_call.
OutcomesOf(hasResolver) ==
    IF hasResolver THEN ResolverOutcomes ELSE {[kind |-> "throw_std"]}

ResolverThrows(out) == out.kind \in {"throw_std", "throw_other"}

\* a handler that catches std::exception only
CatchesStdOnly(out) == out.kind # "throw_other"
\* catch (...) around the body of each adapter's request handler
CatchesAll(out) == TRUE

Header(name, value) == <<name, value>>

\* a 200 response that lets the engine cache the resource
FoundResponseCacheable(p, res) ==
    [kind |-> "response", status |-> 200, contentType |-> res.mimeType,
     body |-> res.data,
     headers |-> {Header("Access-Control-Allow-Origin", "*")}]

\* The 200 response of each adapter
FoundResponse(p, res) ==
    [kind |-> "response", status |-> 200, contentType |-> res.mimeType,
     body |-> res.data,
     headers |->
        {Header("Cache-Control", "no-store"),
         Header("Access-Control-Allow-Origin", "*")}
        \cup (IF p = "apple"
              THEN {Header("Content-Length", Len(res.data)),
                    Header("Content-Type", res.mimeType)}
              ELSE IF p = "windows"
              THEN {Header("Content-Type", res.mimeType)}
              ELSE {})]

\* The 404 response of each adapter: no headers, no data
NotFoundResponse ==
    [kind |-> "response", status |-> 404, contentType |-> "", body |-> <<>>,
     headers |-> {}]

\* webkit_uri_scheme_request_finish_error, didFailWithError:, E_FAIL
FailureResponse ==
    [kind |-> "failure", status |-> 0, contentType |-> "", body |-> <<>>,
     headers |-> {}]

\* a handler that asks the resolver for every URI
fetchResourceOnly(path, html, out) == [called |-> TRUE, out |-> out]
\* Pimpl::fetchResourceOrPageHTML (Windows): the reserved URI is answered
\* from pageHTML, every other URI by calling options.fetchResource.
fetchResourceOrPageHTML(path, html, out) ==
    IF path = ReservedPath
    THEN [called |-> FALSE, out |-> [kind |-> "resource", res |-> html]]
    ELSE [called |-> TRUE, out |-> out]

\* The request handler of each adapter for a request of path, when a call of
\* the resolver ends as out. engineOK: the engine calls the Windows handler
\* makes after the resolver returned (stream, response object, put_Response)
\* succeed.
onResourceRequested(p, html, path, out, engineOK) ==
    LET f == IF p = "windows" THEN fetchResourceOrPageHTML(path, html, out)
             ELSE [called |-> TRUE, out |-> out]
        thrown == f.called /\ ResolverThrows(f.out)
    IN  [called |-> f.called,
         escaped |-> thrown /\ ~CatchesAll(f.out),
         response |->
            IF thrown
            THEN IF CatchesAll(f.out) THEN FailureResponse
                 ELSE NoResponse
            ELSE IF p = "windows" /\ ~engineOK THEN FailureResponse
            ELSE IF f.out.kind = "resource" THEN FoundResponse(p, f.out.res)
            ELSE NotFoundResponse]

\* Whether the adapter registered its request handler with the engine: Linux
\* and Apple register the scheme only for a view with a resolver; Windows
\* adds the filter defaultURI + "*" and the handler in every case.
Intercepts(p, hasResolver) ==
    CASE p = "linux" -> hasResolver
      [] p = "apple" -> hasResolver
      [] p = "windows" -> TRUE

\* the loads that go through the request handler, and their paths
BridgeTargets(p) ==
    {"ctor", "home", "page"} \cup (IF p = "windows" THEN {"html"} ELSE {})
\* a handler that serves the home URI as /index.html
TargetPathIndex(target) ==
    CASE target \in {"ctor", "home"} -> "/index.html"
      [] target = "page" -> "/page"
      [] OTHER -> ReservedPath

TargetPath(target) ==
    CASE target \in {"ctor", "home"} -> "/"
      [] target = "page" -> "/page"
      [] OTHER -> ReservedPath

\* What the engine can ask the handler for: the document of the load it was
\* asked to begin, or something the showing document refers to.
Requests ==
    (IF navTarget \in BridgeTargets(platform)
     THEN {[path |-> TargetPath(navTarget), nav |-> TRUE]} ELSE {})
    \cup (IF served THEN {[path |-> q, nav |-> FALSE] : q \in SubPaths}
          ELSE {})

\* The calls by which a handler reports the outcome of a request to the
\* engine, in order: finish_with_response or finish_error on Linux, the
\* WKURLSchemeTask messages on Apple, put_Response and the returned HRESULT
\* on Windows.
RequestCalls(p, response) ==
    CASE response.kind = "none" -> <<>>
      [] response.kind = "failure" ->
            (CASE p = "linux" -> <<"finish_error">>
               [] p = "apple" -> <<"didFailWithError:">>
               [] p = "windows" -> <<"E_FAIL">>)
      [] OTHER ->
            (CASE p = "linux" -> <<"finish_with_response">>
               [] p = "apple" ->
                    IF response.status = 200
                    THEN <<"didReceiveResponse:", "didReceiveData:",
                           "didFinish">>
                    ELSE <<"didReceiveResponse:", "didFinish">>
               [] p = "windows" -> <<"put_Response", "S_OK">>)

\* the calls that complete a request
FinalCalls ==
    {"finish_with_response", "finish_error", "didFinish",
     "didFailWithError:", "S_OK", "E_FAIL"}

\* The engine calls the adapter's request handler. After ~Pimpl the Apple
\* delegate finds no Pimpl and returns; the Linux callback's context pointer
\* and the Windows handler's ownerPimpl designate the freed adapter.
ResourceRequested ==
    /\ loaded
    /\ ~crashed
    /\ Intercepts(platform, resolver)
    /\ \E req \in Requests, out \in OutcomesOf(resolver),
          engineOK \in (IF platform = "windows" THEN BOOLEAN ELSE {TRUE}),
          ub \in (IF deleted /\ platform # "apple" THEN UBOutcomes
                  ELSE {"benign"}) :
        LET dropped == deleted /\ (platform = "apple" \/ ub = "crash")
            r == IF dropped
                 THEN [called |-> FALSE, escaped |-> FALSE,
                       response |-> NoResponse]
                 ELSE onResourceRequested(platform, pageHTML, req.path, out,
                                          engineOK)
        IN
        /\ navTarget' = IF req.nav THEN "none" ELSE navTarget
        /\ navPending' = IF req.nav THEN FALSE ELSE navPending
        /\ served' = (served \/ (req.nav /\ r.response.kind = "response"
                                          /\ r.response.status = 200))
        /\ firstPath' = IF firstPath = "" /\ r.called THEN req.path
                        ELSE firstPath
        /\ crashed' = (deleted /\ ub = "crash")
        /\ last' = [NoLast EXCEPT
                      !.op = "resourceRequest", !.path = req.path,
                      !.name = IF req.nav THEN navTarget ELSE "",
                      !.ready = pimpl # "null", !.deletedBefore = deleted,
                      !.out = IF r.called THEN out ELSE [kind |-> "none"],
                      !.resolverCalled = r.called,
                      !.engineOK = engineOK,
                      !.escaped = r.escaped,
                      !.freed = deleted /\ platform # "apple",
                      !.events = RequestCalls(platform, r.response),
                      !.response = r.response]
    /\ UNCHANGED <<resolver, pageHTML>>
    /\ UNCHANGED <<removed, platform, loaded, movedTo, handshake, keyListeners, pimpl,
                   destroyed, deleted, bindings, initScripts, queue, pageGen,
                   pageFns, messageID, promise, inflight, handled, cleanLoad,
                   evals>>

\* ------------------------------------------------------------ the home URI
\* Strings are sequences of characters; customSchemeURI ranges over the
\* strings of at most MaxURILen characters of a scheme letter, ':' and '/'.
URIChars == {"s", ":", "/"}
CustomSchemeURIs ==
    UNION {[1..n -> URIChars] : n \in 0..MaxURILen}

\* "https://choc.localhost/" and "choc://choc.choc/"
DefaultHome(p) ==
    IF p = "windows"
    THEN <<"h", "t", "t", "p", "s", ":", "/", "/", "c", "h", "o", "c", ".",
           "l", "o", "c", "a", "l", "h", "o", "s", "t", "/">>
    ELSE <<"c", "h", "o", "c", ":", "/", "/", "c", "h", "o", "c", ".",
           "c", "h", "o", "c", "/">>

\* choc::text::endsWith
endsWith(text, suffix) ==
    /\ Len(suffix) <= Len(text)
    /\ SubSeq(text, Len(text) - Len(suffix) + 1, Len(text)) = suffix

\* a getURIHome that returns Options::customSchemeURI as it is
getURIHomeVerbatim(p, customSchemeURI) == customSchemeURI

\* a getURIHome that appends the '/' in every case
getURIHomeAppending(p, customSchemeURI) ==
    IF customSchemeURI # <<>> THEN customSchemeURI \o <<"/">>
    ELSE DefaultHome(p)

\* WebView::getURIHome
getURIHome(p, customSchemeURI) ==
    IF customSchemeURI # <<>>
    THEN IF endsWith(customSchemeURI, <<"/">>) THEN customSchemeURI
         ELSE customSchemeURI \o <<"/">>
    ELSE DefaultHome(p)

\* std::string::find (":"): the index of the first ':' counted from 0, or
\* npos, written -1
find(text, c) ==
    IF \E i \in 1..Len(text) : text[i] = c
    THEN (CHOOSE i \in 1..Len(text) :
            text[i] = c /\ \A j \in 1..(i - 1) : text[j] # c) - 1
    ELSE -1

\* std::string::substr (0, count); a count of npos takes the whole string
substr0(text, count) ==
    IF count = -1 THEN text ELSE SubSeq(text, 1, count)

\* WebView::getURIScheme: asserts says that the CHOC_ASSERT on the position
\* of the colon fails; text is what the function returns when the assertion
\* is compiled out.
getURIScheme(p, customSchemeURI) ==
    LET uri == getURIHome(p, customSchemeURI)
        colon == find(uri, ":")
    IN  [asserts |-> ~(colon # -1 /\ colon # 0),
         text |-> substr0(uri, colon)]

\* Pimpl::navigate, call by call: if (url.empty()) return navigate
\* (defaultURI); otherwise the engine is asked for url. selfCalls counts the
\* nested calls; returns is FALSE when MaxSelfCalls of them have not reached
\* a non-empty URL.
RECURSIVE navigateURL(_, _, _)
navigateURL(defaultURI, url, selfCalls) ==
    IF url = <<>>
    THEN IF selfCalls >= MaxSelfCalls
         THEN [returns |-> FALSE, target |-> <<>>, selfCalls |-> selfCalls]
         ELSE navigateURL(defaultURI, defaultURI, selfCalls + 1)
    ELSE [returns |-> TRUE, target |-> url, selfCalls |-> selfCalls]

\* Pimpl::navigate: the URL it asks the engine to load
NavigatedURI(defaultURI, url) == IF url = <<>> THEN defaultURI ELSE url

\* What the adapter's constructor derives from Options::customSchemeURI:
\* defaultURI, the scheme it registers and the target of navigate ({}).
ResolveHomeURI ==
    /\ \E customSchemeURI \in CustomSchemeURIs :
        LET defaultURI == getURIHome(platform, customSchemeURI) IN
        last' = [NoLast EXCEPT
                   !.op = "getURIHome", !.uri = customSchemeURI,
                   !.home = defaultURI,
                   !.scheme = getURIScheme(platform, customSchemeURI),
                   !.target = NavigatedURI(defaultURI, <<>>),
                   !.nav = navigateURL(defaultURI, <<>>, 0)]
    /\ UNCHANGED resVars
    /\ UNCHANGED <<removed, platform, loaded, movedTo, handshake, keyListeners, pimpl, destroyed, deleted,
                   crashed, bindings, initScripts, queue, navPending, pageGen,
                   pageFns, messageID, promise, inflight, handled, cleanLoad,
                   evals>>

\* ------------------------------------------------------------- the engine
\* Whether the adapter's completion entry point calls the application's
\* handler: evaluationCompleteCallback (Linux), the completion block (Apple)
\* and ExecuteScriptCompletedCallback::Invoke (Windows) call it in every
\* case; none of them reads the deleted flag.
CompletionInvokesHandler(p, isDeleted) ==
    CASE p = "linux" -> TRUE
      [] p = "apple" -> TRUE
      [] p = "windows" -> TRUE

\* choc::json::parseValue on the serialised result: the value, or the
\* std::exception it throws with its message in what ()
DecoderMessage == "decoder error"
parseValue(text) ==
    CASE text = "value" -> [threw |-> FALSE, value |-> Int64Value(1), what |-> ""]
      [] text = "null" -> [threw |-> FALSE, value |-> VoidValue, what |-> ""]
      [] OTHER -> [threw |-> TRUE, value |-> VoidValue, what |-> DecoderMessage]

\* an adapter that drops the engine's message
NoMessage(p, error) == ""
\* The message each adapter takes from the engine's error: error->message
\* (Linux), getMessageFromNSError (Apple), getMessageFromHRESULT (Windows);
\* empty without an error.
EngineMessage(p, error) == error

\* Pimpl::evaluationCompleteCallback (Linux)
evaluationCompleteCallback(report) ==
    IF report.result = "absent"
    THEN [error |-> "Failed to fetch result", value |-> VoidValue]
    ELSE LET errorMessage == EngineMessage("linux", report.error)
             decoded == parseValue(report.result)
         IN  IF report.result = "empty"
             THEN [error |-> errorMessage, value |-> VoidValue]
             ELSE IF decoded.threw
             THEN \* if (errorMessage.empty()) errorMessage = e.what();
                  [error |-> IF errorMessage = "" THEN decoded.what
                             ELSE errorMessage,
                   value |-> VoidValue]
             ELSE [error |-> errorMessage, value |-> decoded.value]

\* The completion block of Pimpl::evaluateJavascript (Apple) and
\* ExecuteScriptCompletedCallback::Invoke (Windows)
CompletionBlock(p, report) ==
    LET errorMessage == EngineMessage(p, report.error)
        decoded == parseValue(report.result)
    IN  IF report.result \in {"absent", "empty"}
        THEN [error |-> errorMessage, value |-> VoidValue]
        ELSE IF decoded.threw
        THEN \* errorMessage = e.what();
             [error |-> decoded.what, value |-> VoidValue]
        ELSE [error |-> errorMessage, value |-> decoded.value]

\* what the adapter passes to the application's completion handler
CompletionArguments(p, report) ==
    CASE p = "linux" -> evaluationCompleteCallback(report)
      [] p = "apple" -> CompletionBlock(p, report)
      [] p = "windows" -> CompletionBlock(p, report)

\* How the application's completion handler can end
HandlerOutcomes == {"return", "throw_std", "throw_other"}

\* Whether what the completion handler throws leaves the adapter's entry
\* point: none of the three calls the handler inside a try block.
CompletionEscapes(p, outcome) == outcome # "return"

\* The state of an evaluation after its completion was delivered: the
\* callback object is released with the call (unique_ptr on Linux, the COM
\* reference on Windows, the block on Apple).
Completed(ev, invoked) ==
    [ev EXCEPT !.st = "delivered",
               !.calls = IF invoked THEN ev.calls + 1 ELSE ev.calls]

\* the engine reports an evaluation as complete
DeliverCompletion ==
    /\ loaded
    /\ ~crashed
    /\ \E e \in DOMAIN evals :
        /\ evals[e].st = "ready"
        /\ \E report \in EngineReports, outcome \in HandlerOutcomes :
           LET invoked == CompletionInvokesHandler(platform, deleted)
               args == CompletionArguments(platform, report)
           IN
           /\ evals' = [evals EXCEPT ![e] = Completed(evals[e], invoked)]
           /\ last' = [NoLast EXCEPT !.op = "evaluationComplete", !.e = e,
                                     !.ready = pimpl # "null",
                                     !.deletedBefore = deleted,
                                     !.handlerCalled = invoked,
                                     !.handlerOutcome =
                                        IF invoked THEN outcome ELSE "none",
                                     !.escaped =
                                        invoked /\ CompletionEscapes(platform,
                                                                     outcome),
                                     !.report = report,
                                     !.error = args.error,
                                     !.value = args.value]
    /\ UNCHANGED resVars
    /\ UNCHANGED <<removed, platform, loaded, movedTo, handshake, keyListeners, pimpl, destroyed, deleted, crashed,
                   bindings, initScripts, queue, navPending, pageGen, pageFns,
                   messageID, promise, inflight, handled, cleanLoad>>

\* a shim script that adds its function to the ones already under the name
AddShim(defined) == defined + 1
\* window["FUNCTION_NAME"] = function() {...}: the assignment leaves one
\* function under the name, whatever was there before.
DefineShim(defined) == 1

\* a new document runs the init scripts installed for a name, one by one
RECURSIVE RunInitScripts(_)
RunInitScripts(installed) ==
    IF installed = 0 THEN 0 ELSE DefineShim(RunInitScripts(installed - 1))

\* a reply script that settles the entry and leaves it in the registry
SettleWithoutDelete(pr, id, script) ==
    IF id \in DOMAIN pr /\ pr[id].st # "none"
    THEN [pr EXCEPT ![id].st = IF script.kind = "resolve" THEN "resolved"
                               ELSE "rejected",
                    ![id].val = IF script.kind = "resolve"
                                THEN JSEval(script.val) ELSE NoValue,
                    ![id].gen = script.gen]
    ELSE pr

\* The reply script of invokeBinding, run by the page:
\*   window._fnBindings[id].resolve (value); delete window._fnBindings[id];
\* It throws when the entry does not exist and settles nothing then.
Settle(pr, id, script) ==
    IF id \in DOMAIN pr /\ pr[id].st = "pending"
    THEN [pr EXCEPT ![id].st = IF script.kind = "resolve" THEN "resolved"
                               ELSE "rejected",
                    ![id].val = IF script.kind = "resolve"
                                THEN JSEval(script.val) ELSE NoValue,
                    ![id].gen = script.gen]
    ELSE pr

\* the engine runs the oldest script it holds
RunScript ==
    /\ loaded
    /\ ~crashed
    /\ queue # <<>>
    /\ LET s == Head(queue) IN
       /\ queue' = Tail(queue)
       /\ removed' = IF s.kind = "delete" /\ s.name \notin MapNames(bindings)
                     THEN removed \cup {s.name} ELSE removed
       /\ pageFns' = CASE s.kind = "shim" ->
                            [pageFns EXCEPT ![s.name] = DefineShim(@)]
                       [] s.kind = "delete" -> [pageFns EXCEPT ![s.name] = 0]
                       [] OTHER -> pageFns
       \* window._fnBindings = (window._fnBindings || { messageID: 1 })
       /\ messageID' = IF s.kind = "shim" /\ messageID = 0 THEN 1 ELSE messageID
       /\ promise' = IF s.kind \in {"resolve", "reject"}
                     THEN Settle(promise, s.id, s) ELSE promise
       /\ evals' = IF s.kind = "user" /\ s.callback
                   THEN [evals EXCEPT ![s.e].st = "ready"]
                   ELSE IF s.kind = "user"
                   THEN [evals EXCEPT ![s.e].st = "done"]
                   ELSE evals
       /\ last' = [NoLast EXCEPT !.op = "runScript", !.e = s.e,
                                 !.deletedBefore = deleted]
    /\ UNCHANGED resVars
    /\ UNCHANGED <<platform, loaded, movedTo, handshake, keyListeners, pimpl, destroyed, deleted, crashed,
                   bindings, initScripts, navPending, pageGen, inflight,
                   handled, cleanLoad>>

\* ---------------------------------------------------------------- the page
\* JS values a page passes to a shim
JSNumber(n) == [t |-> "jsnumber", v |-> n]
JSBigInt(n) == [t |-> "jsbigint", v |-> n]
PageArguments == {JSNumber(1), JSBigInt(5)}

\* JSON.stringify with the shim's replacer: a bigint becomes its decimal text
ShimParam(arg) ==
    IF arg.t = "jsbigint" THEN JSONString(arg.v) ELSE JSONNumber(arg.v)

\* a shim that posts the counter without incrementing it
SameMessageID(counter) == counter
\* const messageID = ++fnBinding.messageID;
NextMessageID(counter) == counter + 1

\* the shim calls made on the current page so far
CallsOnPage == {i \in DOMAIN promise : promise[i].st # "none"}

\* a page script calls window[name] (arg), name one of names
ShimCall(names, maxCalls) ==
    /\ loaded
    /\ ~crashed
    /\ messageID < MaxMessageID
    /\ Cardinality(CallsOnPage) < maxCalls
    /\ Len(inflight) < MaxInFlight
    /\ \E name \in {n \in names : pageFns[n] > 0}, arg \in PageArguments :
        LET id == NextMessageID(messageID)
            params == <<ShimParam(arg)>>
        IN
        /\ messageID' = id
        /\ promise' = [promise EXCEPT ![id] =
                         [st |-> "pending", val |-> NoValue,
                          params |-> params, gen |-> pageGen]]
        /\ handled' = [handled EXCEPT ![id] = NoHandled]
        /\ inflight' = inflight \o
                          [i \in 1..pageFns[name] |->
                              Msg("ok", TRUE, name, id, params, pageGen)]
        /\ last' = [NoLast EXCEPT !.op = "pageCall", !.name = name,
                                  !.deletedBefore = deleted]
    /\ UNCHANGED resVars
    /\ UNCHANGED <<removed, platform, loaded, movedTo, handshake, keyListeners, pimpl, destroyed, deleted, crashed,
                   bindings, initScripts, queue, navPending, pageGen, pageFns,
                   cleanLoad, evals>>

\* calls of the application's functions, their replies followed
PageCall == ShimCall(UserNames, MaxCalls)

\* calls of any shim of the page, as many as the counter allows
PageCallAny == ShimCall(Names, MaxMessageID)

IsReply(s) == s.kind \in {"resolve", "reject"}

\* The engine replaces the page (a navigation commits, or the page reloads):
\* the new document starts with the installed init scripts run.
PageLoad ==
    /\ loaded
    /\ ~crashed
    /\ pageGen < MaxPageLoads
    /\ pageGen' = pageGen + 1
    /\ navPending' = FALSE
    /\ navTarget' = "none"
    /\ pageFns' = [n \in Names |-> RunInitScripts(initScripts[n])]
    /\ messageID' = IF \E n \in Names : initScripts[n] > 0 THEN 1 ELSE 0
    /\ promise' = [i \in DOMAIN promise |-> NoPromise]
    /\ handled' = [i \in DOMAIN handled |-> NoHandled]
    /\ cleanLoad' = (cleanLoad /\ inflight = <<>>
                     /\ \A i \in 1..Len(queue) : ~IsReply(queue[i]))
    /\ last' = [NoLast EXCEPT !.op = "pageLoad", !.deletedBefore = deleted]
    /\ UNCHANGED <<pageHTML, resolver, served, firstPath>>
    /\ UNCHANGED <<removed, platform, loaded, movedTo, handshake, keyListeners, pimpl, destroyed, deleted, crashed,
                   bindings, initScripts, queue, inflight, evals>>

\* --------------------------------------------------------- specifications
\* The view object and its registry, with messages of every shape arriving
\* from the engine
\* --------------------------------------- Windows initialisation handshake
\* what the engine passes to the completion handlers
Environments == {"null", "env1", "env2"}
Controllers == {"null", "controller"}
Views == {"null", "view"}

\* an environmentCreated that takes every environment it is given
environmentCreatedReplacing(h, env) ==
    [ret |-> TRUE, h |-> [h EXCEPT !.coreWebViewEnvironment = env]]
\* Pimpl::environmentCreated: the first environment is kept, a later one is
\* refused.
environmentCreated(h, env) ==
    IF h.coreWebViewEnvironment # "null"
    THEN [ret |-> FALSE, h |-> h]
    ELSE [ret |-> TRUE, h |-> [h EXCEPT !.coreWebViewEnvironment = env]]

\* Pimpl::webviewCreated: controller and view are stored when both are
\* non-null; the flag the wait loop tests is cleared in any case.
webviewCreated(h, controller, view) ==
    LET stored == IF controller # "null" /\ view # "null"
                  THEN [h EXCEPT !.coreWebView = view, !.delivered = TRUE]
                  ELSE h
    IN  [stored EXCEPT !.webviewInitialising = FALSE]

\* EventHandler::Invoke (HRESULT, ICoreWebView2Environment*)
InvokeEnvironmentCompleted(h, env) ==
    IF env = "null" THEN [hr |-> "E_FAIL", h |-> h]
    ELSE LET r == environmentCreated(h, env)
         IN  IF ~r.ret THEN [hr |-> "E_FAIL", h |-> r.h]
             ELSE [hr |-> "S_OK", h |-> [r.h EXCEPT !.requested = TRUE]]

\* EventHandler::Invoke (HRESULT, ICoreWebView2Controller*)
InvokeControllerCompleted(h, controller, view) ==
    IF controller = "null" \/ view = "null" THEN [hr |-> "E_FAIL", h |-> h]
    ELSE [hr |-> "S_OK", h |-> webviewCreated(h, controller, view)]

\* The loop condition webviewInitialising.test_and_set() && GetMessage (..)
\* let the loop go on and GetMessage returned a message to dispatch.
Dispatching ==
    /\ handshake.pc = "wait"
    /\ handshake.webviewInitialising
    /\ handshake.messages < MaxMessages

HandshakeStep(h, op, hr, env) ==
    /\ handshake' = h
    /\ last' = [NoLast EXCEPT !.op = op, !.hr = hr, !.env = env]
    /\ UNCHANGED resVars
    /\ UNCHANGED <<removed, platform, loaded, movedTo, keyListeners, pimpl, destroyed,
                   deleted, crashed, bindings, initScripts, queue,
                   navPending, pageGen, pageFns, messageID, promise,
                   inflight, handled, cleanLoad, evals>>

\* DispatchMessage delivers the environment-created completion
DispatchEnvironmentCompleted ==
    /\ Dispatching
    /\ \E env \in Environments :
        LET r == InvokeEnvironmentCompleted(handshake, env)
        IN  HandshakeStep([r.h EXCEPT !.messages = @ + 1],
                          "environmentCompleted", r.hr, env)

\* DispatchMessage delivers the completion of CreateCoreWebView2Controller
DispatchControllerCompleted ==
    /\ Dispatching
    /\ handshake.requested
    /\ \E controller \in Controllers, view \in Views :
        LET r == InvokeControllerCompleted(handshake, controller, view)
        IN  HandshakeStep([r.h EXCEPT !.messages = @ + 1, !.requested = FALSE],
                          "controllerCompleted", r.hr, "null")

\* DispatchMessage delivers a message that is none of the handshake's
DispatchOther ==
    /\ Dispatching
    /\ HandshakeStep([handshake EXCEPT !.messages = @ + 1], "otherMessage",
                     "", "null")

\* GetMessage returned the WM_TIMER of timeoutTimer: break
TimerFires ==
    /\ handshake.pc = "wait"
    /\ handshake.webviewInitialising
    /\ HandshakeStep([handshake EXCEPT !.pc = "ended", !.endedBy = "timer"],
                     "timer", "", "null")

\* GetMessage returned 0 for WM_QUIT
MessageLoopQuits ==
    /\ handshake.pc = "wait"
    /\ handshake.webviewInitialising
    /\ HandshakeStep([handshake EXCEPT !.pc = "ended", !.endedBy = "quit"],
                     "quit", "", "null")

\* webviewInitialising.test_and_set() found the flag cleared and set it
WaitEnds ==
    /\ handshake.pc = "wait"
    /\ ~handshake.webviewInitialising
    /\ HandshakeStep([handshake EXCEPT !.pc = "ended", !.endedBy = "created",
                                       !.webviewInitialising = TRUE],
                     "waitEnds", "", "null")

\* The rest of construction: createEmbeddedWebView returns, WebView::WebView
\* tests pimpl->loadedOK(), which is coreWebView != nullptr, and binds the
\* built-in functions.
FinishConstruction ==
    /\ handshake.pc = "ended"
    /\ \E acc \in CtorAccepts, nacc \in BOOLEAN :
        LET ok == handshake.coreWebView # "null"
            c == Constructed(platform, ok, acc)
            nav == ok /\ resolver /\ Pimpl_navigate(platform, nacc)
        IN
        /\ loaded' = ok
        /\ pimpl' = PimplAfterConstruction(ok)
        /\ deleted' = ~ok
        /\ bindings' = c.bindings
        /\ initScripts' = [n \in Names \cup {"<user>"} |->
                             IF n \in c.installed THEN 1 ELSE 0]
        /\ queue' = c.queue
        /\ navPending' = nav
        /\ navTarget' = IF nav THEN "ctor" ELSE "none"
        /\ handshake' = [handshake EXCEPT !.pc = "done"]
        /\ last' = [NoLast EXCEPT !.ready = ok]
    /\ UNCHANGED <<resolver, pageHTML, served, firstPath>>
    /\ UNCHANGED <<removed, platform, movedTo, keyListeners, destroyed, crashed, pageGen,
                   pageFns, messageID, promise, inflight, handled, cleanLoad,
                   evals>>

\* The Windows constructor at the point where createEmbeddedWebView has
\* called CreateCoreWebView2EnvironmentWithOptions, or has returned false
\* before that because the loader, the window or the data folder is missing.
InitHandshake ==
    \E res \in BOOLEAN, started \in BOOLEAN :
        /\ platform = "windows"
        /\ loaded = FALSE
        /\ pimpl = "null"
        /\ destroyed = FALSE
        /\ deleted = FALSE
        /\ crashed = FALSE
        /\ bindings = {}
        /\ initScripts = [n \in Names \cup {"<user>"} |-> 0]
        /\ queue = <<>>
        /\ navPending = FALSE
        /\ resolver = res
        /\ navTarget = "none"
        /\ pageHTML = EmptyResource
        /\ served = FALSE
        /\ firstPath = ""
        /\ pageGen = 0
        /\ pageFns = [n \in Names |-> 0]
        /\ messageID = 0
        /\ promise = [i \in 1..MaxMessageID |-> NoPromise]
        /\ inflight = <<>>
        /\ handled = [i \in 1..MaxMessageID |-> NoHandled]
        /\ cleanLoad = TRUE
        /\ evals = [i \in 1..MaxEvaluations |-> NoEval]
        /\ removed = {}
        /\ movedTo = NotMoved
        /\ keyListeners = {}
        /\ handshake = IF started THEN HandshakeStart
                       ELSE [HandshakeStart EXCEPT !.pc = "ended",
                                                   !.webviewInitialising = FALSE]
        /\ last = NoLast

Next ==
    \/ Bind
    \/ Unbind
    \/ Teardown
    \/ DeliverRaw
    \/ RunScript

Spec == Init /\ [][Next]_vars

\* The public operations of the view, ready or not
NextOps ==
    \/ Bind
    \/ Unbind
    \/ Navigate
    \/ SetHTML
    \/ AddInitScript
    \/ EvaluateJavascript
    \/ RunScript

SpecOps == Init /\ [][NextOps]_vars

\* The evaluation channel and what the engine still delivers after ~WebView
NextEval ==
    \/ EvaluateJavascript
    \/ RunScript
    \/ DeliverCompletion
    \/ DeliverRaw
    \/ Teardown

SpecEval == Init /\ [][NextEval]_vars

\* The round trip of a shim call: page, posted messages, replies, page loads
NextPage ==
    \/ Bind
    \/ Unbind
    \/ PageCall
    \/ DeliverPosted
    \/ RunScript
    \/ PageLoad

SpecPage == Init /\ [][NextPage]_vars

\* The view as the source of a move, with messages still arriving
NextMove ==
    \/ Bind
    \/ Unbind
    \/ MoveFrom
    \/ DeliverRaw
    \/ RunScript

SpecMove == Init /\ [][NextMove]_vars

\* The home URI and scheme derived from Options::customSchemeURI
NextURI == ResolveHomeURI

SpecURI == Init /\ [][NextURI]_vars

\* The resource fetch bridge: loads the application asks for and the
\* requests the engine makes for them
NextRes ==
    \/ Navigate
    \/ SetHTML
    \/ ResourceRequested

SpecRes == Init /\ [][NextRes]_vars

\* The same bridge with the view destroyed while the engine's native view
\* is still showing the page
NextResTeardown ==
    \/ Navigate
    \/ SetHTML
    \/ ResourceRequested
    \/ Teardown

SpecResTeardown == Init /\ [][NextResTeardown]_vars

\* The ids the shims of one page allocate, for the shims of the built-in
\* functions the constructor binds
NextIds ==
    \/ RunScript
    \/ PageCallAny
    \/ DeliverPosted
    \/ PageLoad

SpecIds == Init /\ [][NextIds]_vars

\* Key listeners and the key messages of the page
NextKeys ==
    \/ AddKeyListener
    \/ RemoveKeyListener
    \/ DeliverKey
    \/ RunScript

SpecKeys == Init /\ [][NextKeys]_vars

\* The Windows constructor waiting for its engine
NextHandshake ==
    \/ DispatchEnvironmentCompleted
    \/ DispatchControllerCompleted
    \/ DispatchOther
    \/ TimerFires
    \/ MessageLoopQuits
    \/ WaitEnds
    \/ FinishConstruction

\* The constructor keeps running, and the timer SetTimer started delivers
\* its WM_TIMER once the 6000 ms have passed.
SpecHandshake ==
    /\ InitHandshake
    /\ [][NextHandshake]_vars
    /\ WF_vars(TimerFires)
    /\ WF_vars(WaitEnds)
    /\ WF_vars(FinishConstruction)

\* ------------------------------------------------------------------ claims
ReplyKinds == {"resolve", "reject"}
Throws == {"throw_std", "throw_other"}

\* C1: every message that reaches invokeBinding on a ready view, names a
\* registered binding and carries a non-zero id has exactly one script
\* handed to the engine for it, a resolve or a reject of that id. Read for
\* callbacks that leave the view alive.
C1_ExactlyOneReply ==
    [][(/\ last'.op = "scriptMessage"
        /\ pimpl # "null"
        /\ ~deleted
        /\ ~last'.torn
        /\ last'.msg.json = "ok"
        /\ last'.msg.isObject
        /\ last'.msg.fn \in MapNames(bindings)
        /\ last'.msg.id > 0)
       => /\ Len(last'.scripts) = 1
          /\ last'.scripts[1].script.kind \in ReplyKinds
          /\ last'.scripts[1].script.id = last'.msg.id]_vars

\* The callback threw an object that is not a std::exception: the view is
\* alive and nothing was handed to the engine for the message.
C1_NoReplyAtAll ==
    /\ last.op = "scriptMessage"
    /\ last.ready
    /\ ~last.torn
    /\ last.called # <<>>
    /\ last.escaped
    /\ last.scripts = <<>>

\* C2: a promise a shim call returned is resolved only for that call, after
\* the callback returned, with the JSON round trip of what the callback
\* returned for that call; and the callback saw the params of that call.
C2_ResolvedWithOwnResult ==
    \A id \in DOMAIN promise :
        /\ handled[id].st = "handled"
              => handled[id].params = promise[id].params
        /\ promise[id].st = "resolved"
              => /\ handled[id].st = "handled"
                 /\ handled[id].outcome = "return"
                 /\ promise[id].val = JSEval(toString(handled[id].result))

\* The promise of a call on the current page was resolved by the reply to a
\* call made on the page before, which had used the same id.
C2_SettledByStaleReply ==
    \E id \in DOMAIN promise :
        /\ promise[id].st = "resolved"
        /\ promise[id].gen < pageGen
        /\ promise[id].params # <<>>
        /\ handled[id].st = "none"

\* C3: when the callback of a matched message throws, a reject script for the
\* message's id is handed to the engine, and it carries no value.
C3_ThrowRejects ==
    (/\ last.op = "scriptMessage"
     /\ last.ready
     /\ ~last.torn
     /\ last.called # <<>>
     /\ last.beh.outcome \in Throws)
    => /\ Len(last.scripts) = 1
       /\ last.scripts[1].script = RejectScript(last.msg.id, last.msg.gen)
       /\ last.scripts[1].script.val = NoValue

\* The callback threw and no reject script was produced.
C3_ThrownWithoutReject ==
    /\ last.op = "scriptMessage"
    /\ last.ready
    /\ ~last.torn
    /\ last.beh.outcome \in Throws
    /\ \A i \in 1..Len(last.scripts) : last.scripts[i].script.kind # "reject"

\* the messages claim C4 is about, for registry b
C4_Rejected(m, b) ==
    \/ m.json # "ok"
    \/ ~m.isObject
    \/ m.fn \in {"<absent>", "<nonstring>"}
    \/ m.id < 0
    \/ m.id = 0
    \/ m.fn \notin MapNames(b)

\* C4: a message that is not JSON, lacks fn or id, has id 0 or names no
\* registered binding invokes no callback, hands no script to the engine and
\* leaves the registry as it was.
C4_SilentAbort ==
    [][(/\ last'.op = "scriptMessage"
        /\ pimpl # "null"
        /\ ~deleted
        /\ C4_Rejected(last'.msg, bindings))
       => /\ last'.called = <<>>
          /\ last'.scripts = <<>>
          /\ queue' = queue
          /\ bindings' = bindings]_vars

\* A message with id 0 for a bound name was delivered to a ready view.
C4_ZeroIdForBoundName ==
    /\ last.op = "scriptMessage"
    /\ last.ready
    /\ ~last.deletedBefore
    /\ last.msg.id = 0
    /\ last.msg.fn \in MapNames(bindings)
    /\ last.called = <<>>

\* C5: when the callback tore the view down, invokeBinding hands no script to
\* the engine and reads nothing of the destroyed view, whether the callback
\* returned or threw.
C5_NothingAfterTeardown ==
    (last.op = "scriptMessage" /\ last.torn)
    => /\ last.scripts = <<>>
       /\ ~last.freed

\* The callback destroyed the view and threw a std::exception: invokeBinding
\* went on to evaluateJavascript on the destroyed view.
C5_RejectThroughDestroyedView ==
    /\ last.op = "scriptMessage"
    /\ last.torn
    /\ last.beh.outcome = "throw_std"
    /\ last.freed
    /\ last.scripts # <<>>

\* C6: the completion handler of an evaluation is not invoked once the view
\* has been destroyed.
C6_NoCompletionAfterTeardown ==
    (last.op = "evaluationComplete" /\ last.deletedBefore)
    => ~last.handlerCalled

\* An evaluation with a handler completed after ~WebView and the handler ran.
C6_HandlerRanAfterTeardown ==
    /\ destroyed
    /\ last.op = "evaluationComplete"
    /\ last.deletedBefore
    /\ last.handlerCalled
    /\ evals[last.e].handler

\* C7: the handler of an evaluation is invoked at most once, and an
\* evaluation submitted without a handler invokes nothing.
C7_AtMostOneCompletion ==
    \A e \in DOMAIN evals :
        /\ evals[e].calls <= 1
        /\ ~evals[e].handler => evals[e].calls = 0

\* One evaluation with a handler has completed and its handler ran once.
C7_HandlerRanOnce ==
    \E e \in DOMAIN evals :
        /\ evals[e].st = "delivered"
        /\ evals[e].handler
        /\ evals[e].calls = 1

\* the events of the engine that reach native code
EngineEvents == {"scriptMessage", "evaluationComplete"}

\* C8: an event the engine delivers after ~WebView invokes no callback and no
\* completion handler and reads nothing of the destroyed view.
C8_EventsAfterTeardownAreNoOps ==
    (last.op \in EngineEvents /\ last.deletedBefore)
    => /\ last.called = <<>>
       /\ ~last.handlerCalled
       /\ ~last.freed
       /\ last.scripts = <<>>

\* A script message arrived after ~WebView and its handler went through the
\* reference to the destroyed adapter.
C8_MessageReadDestroyedAdapter ==
    /\ last.op = "scriptMessage"
    /\ last.deletedBefore
    /\ last.freed

PublicOps == {"navigate", "setHTML", "evaluateJavascript", "addInitScript",
              "bind", "unbind"}

\* C9: on a view that is not ready each of navigate, setHTML,
\* evaluateJavascript, addInitScript, bind and unbind returns false, hands
\* nothing to the engine and leaves the registry unchanged.
C9_NotReadyOpsFail ==
    [][(last'.op \in PublicOps /\ ~loadedOK(pimpl))
       => /\ last'.ret = FALSE
          /\ last'.scripts = <<>>
          /\ queue' = queue
          /\ initScripts' = initScripts
          /\ navPending' = navPending
          /\ evals' = evals
          /\ bindings' = bindings]_vars

\* navigate was called on a view whose initialisation had failed.
C9_NavigateOnFailedView ==
    /\ ~loaded
    /\ last.op = "navigate"
    /\ ~last.ready
    /\ ~last.ret

\* C10: on a ready view bind returns true exactly when the engine accepted
\* both the init script and the evaluation of the shim; after a true return
\* the registry maps the name to the new callback only; the registry never
\* holds two callbacks for one name.
C10_BindContract ==
    /\ [](\A n \in Names : Cardinality(MapFind(bindings, n)) <= 1)
    /\ [][(last'.op = "bind" /\ loadedOK(pimpl))
          => /\ last'.ret <=> (last'.a1 /\ last'.a2)
             /\ last'.ret =>
                  MapFind(bindings', last'.name) = {<<last'.name, last'.cb>>}
             /\ \A n \in Names \ {last'.name} :
                  MapFind(bindings', n) = MapFind(bindings, n)]_vars

\* bind returned true for a name that held another callback before.
C10_ReplacedCallback ==
    /\ last.op = "bind"
    /\ last.ret
    /\ last.prev \notin {"", last.cb}
    /\ MapFind(bindings, last.name) = {<<last.name, last.cb>>}

\* C11: unbind returns true and removes the entry exactly when the name is
\* bound, otherwise it returns false and changes nothing; a second unbind
\* directly after a successful one returns false and has no effect.
C11_UnbindContract ==
    [][(last'.op = "unbind")
       => /\ last'.ret <=> (MapFind(bindings, last'.name) # {})
          /\ last'.ret =>
                /\ MapFind(bindings', last'.name) = {}
                /\ \A n \in Names \ {last'.name} :
                      MapFind(bindings', n) = MapFind(bindings, n)
          /\ ~last'.ret => (bindings' = bindings /\ queue' = queue)
          /\ (last.op = "unbind" /\ last.ret /\ last.name = last'.name)
                => (~last'.ret /\ bindings' = bindings /\ queue' = queue
                    /\ last'.scripts = <<>>)]_vars

\* unbind was called twice in a row on a name that was bound: the second call
\* returned false.
C11_SecondUnbindFalse ==
    /\ last.op = "unbind"
    /\ last.ready
    /\ last.prev = "unbound"
    /\ ~last.ret
    /\ last.name \notin MapNames(bindings)

\* C12: once unbind (N) has returned true and its delete script has run, and
\* as long as N is not bound again, window.N is not a function, in every
\* page state that follows, also after a navigation or a reload.
C12_UnboundStaysUndefined ==
    \A n \in removed : n \notin MapNames(bindings) => pageFns[n] = 0

\* The page was replaced after f was unbound and its delete script had run:
\* the init script that bind installed defined window.f again.
C12_ShimBackAfterReload ==
    /\ ~destroyed
    /\ pageGen > 0
    /\ "f" \in removed
    /\ "f" \notin MapNames(bindings)
    /\ pageFns["f"] > 0

\* the message the shim call of this step posted
PostedNow == inflight'[Len(inflight')]
\* the largest id used on the current page
LastIdOnPage == CHOOSE i \in CallsOnPage : \A j \in CallsOnPage : j <= i

\* C13 as stated: the first shim call of a page posts id 1, every further
\* call the previous id plus one, whatever the name; no id repeats on the
\* page and none is 0.
C13_IdsStartAtOne ==
    [][(last'.op = "pageCall")
       => /\ CallsOnPage = {} => PostedNow.id = 1
          /\ CallsOnPage # {} => PostedNow.id = LastIdOnPage + 1
          /\ PostedNow.id \notin CallsOnPage
          /\ PostedNow.id # 0]_vars

\* C13 amended: the first shim call of a page posts id 2 (the counter starts
\* at 1 and is incremented before use), every further call the previous id
\* plus one, whatever the name; no id repeats on the page and none is 0.
C13_IdsStartAtTwo ==
    [][(last'.op = "pageCall")
       => /\ CallsOnPage = {} => PostedNow.id = 2
          /\ CallsOnPage # {} => PostedNow.id = LastIdOnPage + 1
          /\ PostedNow.id \notin CallsOnPage
          /\ PostedNow.id # 0]_vars

\* The second shim call of a page has been made and got id 3.
C13_SecondCallOnPage ==
    /\ last.op = "pageCall"
    /\ messageID = 3
    /\ promise[2].st # "none"
    /\ promise[3].st = "pending"
    /\ promise[3].gen = pageGen

\* C14 as stated: every intercepted request for which the resolver returned
\* a Resource is answered with status 200, the resource's MIME type as
\* content type, the headers Cache-Control: no-store and
\* Access-Control-Allow-Origin: *, and the resource's bytes as body; every
\* request for which the resolver returned nothing is answered with status
\* 404 and an empty body.
C14_Answered ==
    /\ (last.out.kind = "resource" =>
           /\ last.response.kind = "response"
           /\ last.response.status = 200
           /\ last.response.contentType = last.out.res.mimeType
           /\ Header("Cache-Control", "no-store") \in last.response.headers
           /\ Header("Access-Control-Allow-Origin", "*")
                  \in last.response.headers
           /\ last.response.body = last.out.res.data)
    /\ (last.out.kind = "nothing" =>
           /\ last.response.kind = "response"
           /\ last.response.status = 404
           /\ last.response.body = <<>>)

C14_ResourceResponses ==
    (last.op = "resourceRequest" /\ last.resolverCalled) => C14_Answered

\* C14 (amended): the same, for the requests during which the engine calls
\* that build and attach the response succeed; when one of them fails the
\* Windows adapter ends the request with E_FAIL whatever the resolver
\* returned.
C14_ResponsesWhenEngineCallsSucceed ==
    (last.op = "resourceRequest" /\ last.resolverCalled /\ last.engineOK)
        => C14_Answered

\* The resolver returned a two-byte resource and the request was answered
\* with it.
C14_ResourceServed ==
    /\ last.op = "resourceRequest"
    /\ last.resolverCalled
    /\ last.out.kind = "resource"
    /\ last.out.res.data = <<1, 2>>
    /\ last.response.status = 200
    /\ last.response.body = <<1, 2>>

\* C15: when the resolver throws while a request is served, the request is
\* completed with the adapter's generic failure, neither a 200 nor a 404,
\* and the exception does not leave the request handler, on every adapter.
C15_ResolverThrowFails ==
    (last.op = "resourceRequest" /\ last.resolverCalled
        /\ ResolverThrows(last.out))
        => /\ last.response.kind = "failure"
           /\ last.response.status \notin {200, 404}
           /\ ~last.escaped

\* The resolver threw something that is not a std::exception and the
\* request ended with the generic failure.
C15_NonStdThrowCaught ==
    /\ last.op = "resourceRequest"
    /\ resolver
    /\ last.resolverCalled
    /\ last.out.kind = "throw_other"
    /\ last.response.kind = "failure"

\* C16: the resource fetch bridge is active only for views constructed with
\* a resolver: a view constructed without one intercepts no request and never
\* calls the empty resolver function, on every adapter.
C16_BridgeOnlyWithResolver ==
    /\ last.op = "resourceRequest" => resolver
    /\ last.resolverCalled => resolver

\* A Windows view constructed without a resolver was navigated to its home
\* URI; the request handler ran and called the empty resolver function.
C16_EmptyResolverCalled ==
    /\ platform = "windows"
    /\ ~resolver
    /\ last.op = "resourceRequest"
    /\ last.path = "/"
    /\ last.resolverCalled
    /\ last.out.kind = "throw_std"
    /\ last.response.kind = "failure"

C18_ReplyAfterCallback ==
    last.op = "scriptMessage" =>
        \A i \in DOMAIN last.events :
            last.events[i] = "submit" =>
                /\ \E j \in 1..(i - 1) :
                      last.events[j] \in {"callbackReturned", "callbackThrew"}
                /\ \A j \in DOMAIN last.events :
                      last.events[j] \in {"callbackEntered", "callbackReturned",
                                         "callbackThrew"} => j < i
                /\ last.scripts # <<>>
                /\ last.scripts[1].script.kind \in ReplyKinds

\* A round trip whose callback threw a std::exception and whose reject
\* script was submitted after that.
C18_RejectSubmittedAfterThrow ==
    /\ last.op = "scriptMessage"
    /\ last.called # <<>>
    /\ last.beh.outcome = "throw_std"
    /\ last.events = <<"callbackEntered", "callbackThrew", "submit">>
    /\ last.scripts[1].script.kind = "reject"

C20_DecoderMessageDelivered ==
    (last.op = "evaluationComplete" /\ last.handlerCalled
        /\ last.report.result = "undecodable")
        => (last.error = DecoderMessage /\ last.value = VoidValue)

\* On Linux the engine reported an error together with a result the decoder
\* cannot read, and the handler received the engine's message.
C20_EngineMessageKept ==
    /\ last.op = "evaluationComplete"
    /\ last.handlerCalled
    /\ platform = "linux"
    /\ last.report.error = EngineErrorMessage
    /\ last.report.result = "undecodable"
    /\ last.error = EngineErrorMessage

\* C21: no failure raised by an application-supplied function escapes the
\* native entry point the engine called: invokeBinding returns normally
\* whatever the bound callback throws, and the evaluation-completion entry
\* points return normally whatever the completion handler throws.
C21_NothingEscapes ==
    last.op \in {"scriptMessage", "evaluationComplete"} => ~last.escaped

\* The completion handler threw a std::exception on Linux and the exception
\* left evaluationCompleteCallback.
C21_HandlerThrowEscaped ==
    /\ last.op = "evaluationComplete"
    /\ platform = "linux"
    /\ last.handlerCalled
    /\ last.handlerOutcome = "throw_std"
    /\ last.escaped

\* C22: an inbound message with id 0 causes nothing to be sent back into
\* the page on any adapter: no script is evaluated for it and no message is
\* posted to the page in response to it.
C22_IdZeroSendsNothing ==
    (last.op = "scriptMessage" /\ ParsesWithFn(last.msg)
        /\ CallbackID(last.msg) = 0)
        => (last.scripts = <<>> /\ ~last.echoed)

\* A message with id 0 for the bound name f arrived on Windows: no script
\* was evaluated, and the message was posted back to the page.
C22_IdZeroEchoed ==
    /\ last.op = "scriptMessage"
    /\ platform = "windows"
    /\ last.ready
    /\ ~last.deletedBefore
    /\ last.msg.fn = "f"
    /\ last.msg.id = 0
    /\ MapFind(bindings, "f") # {}
    /\ last.called = <<>>
    /\ last.scripts = <<>>
    /\ last.echoed

\* C23: the view lifecycle only moves forward: a view whose initialisation
\* failed has loadedOK() false from the end of construction onwards, and no
\* later bind, unbind, navigate, setHTML, evaluateJavascript or
\* addInitScript makes loadedOK() true again or re-creates the adapter.
C23_LifecycleMovesForward ==
    /\ [](~loaded => ~loadedOK(pimpl))
    /\ [][~loadedOK(pimpl) => ~loadedOK(pimpl')]_vars
    /\ [][(last'.op \in PublicOps /\ ~loadedOK(pimpl))
            => (~last'.ready /\ deleted' /\ ~loaded')]_vars

\* evaluateJavascript was called on a view whose initialisation had failed,
\* and the view is still not ready.
C23_FailedViewStaysFailed ==
    /\ ~loaded
    /\ last.op = "evaluateJavascript"
    /\ ~last.ready
    /\ ~loadedOK(pimpl)

\* C24: scripts are handed to the engine in the order in which
\* evaluateJavascript is called on the owning thread, the resolve and reject
\* scripts of invokeBinding included: a script submitted by a later call is
\* behind every script submitted by an earlier one, and the engine runs the
\* one submitted first.
C24_SubmissionOrder ==
    /\ [][(last'.op \in {"evaluateJavascript", "scriptMessage"})
            => queue' = queue \o AcceptedScripts(last'.scripts)]_vars
    /\ [][(last'.op = "runScript") => queue = <<Head(queue)>> \o queue']_vars

\* evaluateJavascript was called first and a bound callback's reply was
\* submitted after it: the engine holds the two scripts in that order.
C24_ReplyBehindEarlierScript ==
    /\ last.op = "scriptMessage"
    /\ Len(queue) = 2
    /\ queue[1].kind = "user"
    /\ queue[2].kind \in ReplyKinds
    /\ last.scripts # <<>>
    /\ last.scripts[1].script = queue[2]

\* C25: for a non-empty customSchemeURI the home URI is customSchemeURI with
\* one '/' appended only when it does not already end in '/'; the registered
\* scheme is the text before the first ':' of the home URI; the initial
\* navigation targets the home URI; for an empty customSchemeURI the
\* platform default home URI is used. The home URI always ends in '/'.
C25_HomeURIAndScheme ==
    last.op = "getURIHome" =>
        LET u == last.uri
            h == last.home
        IN
        /\ u # <<>> =>
              h = IF u[Len(u)] = "/" THEN u ELSE u \o <<"/">>
        /\ u = <<>> => h = DefaultHome(platform)
        /\ h # <<>> /\ h[Len(h)] = "/"
        /\ ~last.scheme.asserts =>
              \E k \in 1..Len(h) :
                  /\ h[k] = ":"
                  /\ \A j \in 1..(k - 1) : h[j] # ":"
                  /\ last.scheme.text = SubSeq(h, 1, k - 1)
                  /\ last.scheme.text # <<>>
        /\ last.target = h

\* customSchemeURI "s:/" already ends in '/': it is the home URI as it is,
\* and the scheme is "s".
C25_SlashNotDoubled ==
    /\ last.op = "getURIHome"
    /\ last.uri = <<"s", ":", "/">>
    /\ last.home = <<"s", ":", "/">>
    /\ last.scheme.text = <<"s">>
    /\ ~last.scheme.asserts

\* C26: a resolve or reject script produced for a call made on one page never
\* settles a promise created by a different call: every settled promise of
\* the showing page was settled by the reply to a call made on that page.
C26_SettledByOwnPageOnly ==
    \A id \in DOMAIN promise :
        promise[id].st \in {"resolved", "rejected"}
            => promise[id].gen = pageGen

\* The page was replaced while a call was in flight, the new page used the
\* same id for a call of its own, and that call's promise was rejected by
\* the reply to the old page's call before its own message was handled.
C26_RejectedByStaleReply ==
    \E id \in DOMAIN promise :
        /\ promise[id].st = "rejected"
        /\ promise[id].gen < pageGen
        /\ handled[id].st = "none"
        /\ last.op = "runScript"

\* C27: within one call of a shim the {resolve, reject} entry is stored under
\* the new id before the message is posted, and the reply script settles that
\* entry and then deletes it; so while the page is not replaced with a call
\* or a reply in flight, the reply for an id finds its entry pending, and an
\* entry that was settled is never settled again.
C27_EntryStoredSettledOnce ==
    /\ [](\A i \in 1..Len(inflight) :
            inflight[i].gen = pageGen
                => promise[inflight[i].id].st # "none")
    /\ [][(last'.op = "pageCall")
            => /\ promise'[PostedNow.id].st = "pending"
               /\ promise'[PostedNow.id].params = PostedNow.params]_vars
    /\ [][(cleanLoad /\ last'.op = "runScript" /\ queue # <<>>
             /\ IsReply(Head(queue)))
            => /\ promise[Head(queue).id].st = "pending"
               /\ promise'[Head(queue).id].st =
                     (IF Head(queue).kind = "resolve" THEN "resolved"
                      ELSE "rejected")]_vars
    /\ [][\A id \in DOMAIN promise :
            (promise[id].st \in {"resolved", "rejected"}
                /\ pageGen' = pageGen)
                => promise'[id] = promise[id]]_vars

\* On a page loaded with nothing in flight a call was made, its callback
\* returned and its reply found the entry and resolved it.
C27_ReplyFoundEntry ==
    /\ last.op = "runScript"
    /\ cleanLoad
    /\ pageGen = 1
    /\ \E id \in DOMAIN promise :
          /\ promise[id].st = "resolved"
          /\ promise[id].gen = pageGen
          /\ handled[id].st = "handled"

\* C28: after bind (N, f1) followed by bind (N, f2) on a ready view, each
\* call of window.N posts exactly one message and causes exactly one
\* invocation of f2 and none of f1, although an init script for N was
\* installed by each bind: a name has one function on the page however many
\* init scripts were installed for it, and a delivered message calls the one
\* callback that the registry holds for the name.
C28_OneMessageOneInvocation ==
    /\ [](\A n \in Names : pageFns[n] <= 1)
    /\ [][(last'.op = "pageCall")
            => /\ Len(inflight') = Len(inflight) + 1
               /\ PostedNow.fn = last'.name]_vars
    /\ [][(last'.op = "scriptMessage" /\ last'.called # <<>>)
            => /\ Len(last'.called) = 1
               /\ MapFind(bindings, last'.msg.fn)
                     = {<<last'.msg.fn, last'.called[1].cb>>}]_vars

\* f was bound twice, the second time to c2, the page was loaded with both
\* init scripts installed, and a call of window.f on that page reached c2.
C28_SecondCallbackServed ==
    /\ initScripts["f"] = 2
    /\ pageGen = 1
    /\ pageFns["f"] = 1
    /\ last.op = "scriptMessage"
    /\ last.msg.gen = pageGen
    /\ last.msg.fn = "f"
    /\ Len(last.called) = 1
    /\ last.called[1].cb = "c2"
    /\ MapFind(bindings, "f") = {<<"f", "c2">>}

\* C29: a bind call that returns false leaves the binding registry exactly
\* as it was: no entry is added, and a callback previously registered under
\* the same name is kept and serves the next call of that name.
C29_FailedBindKeepsRegistry ==
    /\ [][(last'.op = "bind" /\ ~last'.ret) => bindings' = bindings]_vars
    /\ [][(/\ last.op = "bind" /\ ~last.ret /\ last.prev # ""
            /\ last'.op = "scriptMessage" /\ last'.ready
            /\ ParsesWithFn(last'.msg) /\ last'.msg.fn = last.name
            /\ CallbackID(last'.msg) # 0)
            => /\ Len(last'.called) = 1
               /\ last'.called[1].cb = last.prev]_vars

\* f was bound to c1; a bind of f to c2 on the ready view returned false
\* because the engine refused a script, and the registry still maps f to c1.
C29_FailedRebindKeptOld ==
    /\ last.op = "bind"
    /\ last.ready
    /\ ~last.ret
    /\ last.name = "f"
    /\ last.prev = "c1"
    /\ last.cb = "c2"
    /\ MapFind(bindings, "f") = {<<"f", "c1">>}

\* C30: in every reachable state of a WebView object a non-empty binding
\* registry implies a live engine adapter (pimpl non-null), so invokeBinding
\* never reads the deleted-flag holder through a null adapter when it finds
\* a matching binding.
C30_RegistryImpliesAdapter ==
    /\ bindings # {} => pimpl # "null"
    /\ (last.op = "scriptMessage" /\ ~last.ready /\ ~last.deletedBefore)
          => (last.called = <<>> /\ ~last.freed /\ ~crashed)

\* The view was moved from while f was bound; a message for f then reached
\* the moved-from object, which found no binding and returned.
C30_MessageOnMovedFromView ==
    /\ last.op = "scriptMessage"
    /\ ~last.ready
    /\ ~last.deletedBefore
    /\ loaded
    /\ last.msg.fn = "f"
    /\ last.msg.id = 2
    /\ bindings = {}
    /\ last.called = <<>>
    /\ ~last.freed

\* C31: after a WebView is move-constructed or move-assigned, a message from
\* the engine is looked up in the registry of the WebView that now owns the
\* adapter: a function bound before the move is still invoked with the
\* message's params and the reply for its caller's promise is submitted.
C31_MovedViewStillServes ==
    (/\ last.op = "scriptMessage"
     /\ movedTo.moved
     /\ ParsesWithFn(last.msg)
     /\ CallbackID(last.msg) # 0
     /\ MapFind(movedTo.bindings, last.msg.fn) # {})
        => /\ Len(last.called) = 1
           /\ <<last.msg.fn, last.called[1].cb>> \in movedTo.bindings
           /\ Len(last.scripts) = 1

\* f was bound, the view was moved into another WebView, which holds the
\* adapter and the entry for f; the adapter's owner reference still
\* designates the moved-from object, whose registry is empty, so the call of
\* f with id 2 ran no callback and submitted no reply.
C31_BoundFunctionLostByMove ==
    /\ last.op = "scriptMessage"
    /\ movedTo.moved
    /\ movedTo.pimpl = "live"
    /\ <<"f", "c1">> \in movedTo.bindings
    /\ last.msg.fn = "f"
    /\ last.msg.id = 2
    /\ pimpl = "null"
    /\ MapFind(bindings, "f") = {}
    /\ last.called = <<>>
    /\ last.scripts = <<>>

\* C32: on Windows the constructor's wait for the engine always ends and
\* construction completes. The wait ends only because a completion handed
\* over a controller and a view (and then it ends at the next test of the
\* flag), because the timeout timer fired or because the message loop quit.
\* Afterwards loadedOK() is true exactly if a non-null controller and view
\* were delivered during the wait. An environment-created completion that
\* arrives when an environment is already held is answered E_FAIL, keeps the
\* first environment and requests no controller.
C32_HandshakeTerminates ==
    /\ <>(handshake.pc = "done")
    /\ [](handshake.pc = "done" => (loadedOK(pimpl) <=> handshake.delivered))
    /\ [][(handshake.pc = "wait" /\ handshake'.pc # "wait")
            => \/ /\ handshake'.endedBy = "created"
                  /\ handshake.delivered
               \/ /\ handshake'.endedBy \in {"timer", "quit"}
                  /\ ~handshake.delivered]_vars
    /\ [][(handshake.pc = "wait" /\ handshake.delivered)
            => (handshake'.pc = "ended" /\ last'.op = "waitEnds")]_vars
    /\ [][(/\ last'.op = "environmentCompleted"
           /\ handshake.coreWebViewEnvironment # "null")
            => /\ last'.hr = "E_FAIL"
               /\ handshake'.coreWebViewEnvironment
                    = handshake.coreWebViewEnvironment
               /\ handshake'.requested = handshake.requested]_vars

\* The first environment was kept, a controller and a view arrived within
\* three dispatched messages, the wait ended on the cleared flag and the
\* constructed view reports loadedOK().
C32_LoadedAfterHandshake ==
    /\ handshake.pc = "done"
    /\ platform = "windows"
    /\ handshake.endedBy = "created"
    /\ handshake.coreWebViewEnvironment = "env1"
    /\ handshake.messages = MaxMessages
    /\ loadedOK(pimpl)
    /\ last.op = "construct"

\* C33: every intercepted resource request is answered exactly once, on every
\* adapter: the handler makes exactly one call that completes the request,
\* and what it reports is a 200 response, a 404 response or a failure.
C33_AnsweredExactlyOnce ==
    last.op = "resourceRequest"
        => /\ Len(SelectSeq(last.events, LAMBDA c : c \in FinalCalls)) = 1
           /\ \/ last.response.kind = "failure"
              \/ /\ last.response.kind = "response"
                 /\ last.response.status \in {200, 404}

\* The WebView was destroyed while the page was showing; the native view then
\* asked the Apple scheme handler for a resource, the delegate found no
\* Pimpl and returned without a response, a failure or didFinish.
C33_RequestLeftUnanswered ==
    /\ last.op = "resourceRequest"
    /\ platform = "apple"
    /\ destroyed
    /\ last.deletedBefore
    /\ ~crashed
    /\ last.events = <<>>
    /\ last.response = NoResponse

\* what C34 says of setHTML and of a request for the reserved URI
C34_SetHTMLStoresAndNavigates ==
    (last'.op = "setHTML" /\ platform = "windows" /\ last'.ready)
        => /\ pageHTML' = [data |-> last'.html, mimeType |-> "text/html"]
           /\ last'.a1 => (navPending' /\ navTarget' = "html")
           /\ TargetPath("html") = ReservedPath

C34_AnsweredFromPageHTML ==
    /\ last.response.kind = "response"
    /\ last.response.status = 200
    /\ last.response.contentType = "text/html"
    /\ last.response.body = pageHTML.data
    /\ ~last.resolverCalled

C34_ReservedRequest ==
    /\ last.op = "resourceRequest"
    /\ platform = "windows"
    /\ last.path = ReservedPath
    /\ pageHTML # EmptyResource

\* C34 as stated: on Windows setHTML(h) stores h and navigates to the
\* reserved URI, the home URI followed by getHTMLInternal; a request for
\* exactly that URI is answered with status 200, content type text/html and
\* the most recently stored h, without a call of the resolver, with or
\* without a resolver.
C34_ReservedURIServesPage ==
    /\ [][C34_SetHTMLStoresAndNavigates]_vars
    /\ [](C34_ReservedRequest => C34_AnsweredFromPageHTML)

\* C34 (amended): the same, for the requests during which the engine calls
\* that build and attach the response succeed; when the memory stream or
\* the response object cannot be created or put_Response fails, the request
\* for the reserved URI ends with E_FAIL, still without a call of the
\* resolver.
C34_ReservedURIWhenEngineCallsSucceed ==
    /\ [][C34_SetHTMLStoresAndNavigates]_vars
    /\ [](C34_ReservedRequest =>
            /\ ~last.resolverCalled
            /\ last.engineOK => C34_AnsweredFromPageHTML
            /\ ~last.engineOK => last.response = FailureResponse)

\* Two pages were stored one after the other on a view without a resolver;
\* the request for the reserved URI was answered with the second.
C34_SecondPageServed ==
    /\ C34_ReservedRequest
    /\ ~resolver
    /\ last.engineOK
    /\ pageHTML.data = <<60, 33, 62>>
    /\ last.response.status = 200
    /\ last.response.body = <<60, 33, 62>>
    /\ last.name = "html"

\* the state the constructor leaves behind, before any other operation
C35_JustConstructed == last.op = "construct" /\ handshake.pc = "done"

\* the built-in names whose shim the engine took during construction
C35_AcceptedBuiltins ==
    {n \in BuiltinNames :
        \E i \in 1..Len(queue) : queue[i] = ShimScript(n)}

\* C35 as stated: directly after construction the registry of a view that
\* initialised holds exactly juce_enableKeyEvents, juce_onKeyDown and
\* juce_onKeyUp, and the registry of a view that did not initialise is empty.
C35_RegistryAfterConstruction ==
    C35_JustConstructed
        => IF loadedOK(pimpl) THEN MapNames(bindings) = BuiltinNames
           ELSE bindings = {}

\* C35 (amended): directly after construction the registry of a view that
\* initialised holds exactly those of the three built-in names whose init
\* script and shim evaluation the engine accepted: all three on Linux, where
\* both calls always succeed, and all three on Apple and Windows when the
\* engine accepted them all. The registry of a view that did not initialise
\* is empty.
C35_RegistryHoldsAcceptedBuiltins ==
    C35_JustConstructed
        => IF loadedOK(pimpl)
           THEN /\ MapNames(bindings) = C35_AcceptedBuiltins
                /\ platform = "linux" => MapNames(bindings) = BuiltinNames
                /\ \A n \in BuiltinNames :
                      initScripts[n] = 1 /\ ShimScript(n) \in
                            {queue[i] : i \in 1..Len(queue)}
                        => MapFind(bindings, n) # {}
           ELSE bindings = {}

\* a Windows view straight after a construction in which the engine took
\* all three built-in shims
C35_ThreeBuiltinsRegistered ==
    /\ C35_JustConstructed
    /\ platform = "windows"
    /\ loadedOK(pimpl)
    /\ MapNames(bindings) = BuiltinNames
    /\ Len(queue) = 3

\* C36: navigate with an empty URL returns and asks the engine for the
\* configured home URI: the home URI an adapter derives from its options is
\* never empty, so navigate calls itself at most once on that path.
C36_EmptyURLNavigatesHome ==
    last.op = "getURIHome"
        => /\ last.home # <<>>
           /\ last.nav.returns
           /\ last.nav.selfCalls = 1
           /\ last.nav.target = last.home
           /\ last.nav.target = getURIHome(platform, last.uri)

\* no custom scheme URI was configured: navigate ({}) called itself once
\* with the adapter's built-in home URI
C36_DefaultHomeNavigated ==
    /\ last.op = "getURIHome"
    /\ last.uri = <<>>
    /\ last.nav.returns
    /\ last.nav.selfCalls = 1
    /\ last.nav.target = DefaultHome(platform)

\* a key message handled by a Windows view
C37_KeyMessage ==
    /\ last.op = "scriptMessage"
    /\ platform = "windows"
    /\ last.msg.fn \in {"juce_onKeyDown", "juce_onKeyUp"}

\* each registered listener got exactly one call of the matching method,
\* every other listener none
C37_EachListenerCalledOnce ==
    /\ \A l \in Listeners :
          last.keys.calls[l] = (IF l \in keyListeners THEN 1 ELSE 0)
    /\ keyListeners # {} =>
          last.keys.method = (IF last.msg.fn = "juce_onKeyDown"
                              THEN "onKeyDown" ELSE "onKeyUp")

\* addKeyListener registers the listener once however often it is added,
\* removeKeyListener removes it, and neither does anything on a view that
\* is not loaded
C37_AddAndRemove ==
    /\ (last'.op = "addKeyListener" /\ platform = "windows")
          => keyListeners' = (IF loadedOK(pimpl)
                              THEN keyListeners \cup {last'.listener}
                              ELSE keyListeners)
    /\ (last'.op = "removeKeyListener" /\ platform = "windows")
          => keyListeners' = (IF loadedOK(pimpl)
                              THEN keyListeners \ {last'.listener}
                              ELSE keyListeners)
    /\ ~loadedOK(pimpl) => keyListeners = {}

ErrorKind(args) ==
    CASE args.error = "" -> "none"
      [] args.error = EngineErrorMessage -> "engine"
      [] args.error = DecoderMessage -> "decoder"
      [] OTHER -> "adapter"

\* two adapters passed the same outcome to the completion handler
SameOutcome(a, b) ==
    /\ (a.error = "") = (b.error = "")
    /\ ErrorKind(a) = ErrorKind(b)
    /\ (a.value = VoidValue) = (b.value = VoidValue)

\* C38: for the same engine outcome of an evaluation (engine error present
\* or absent; result decodable, undecodable or absent) the Linux, macOS and
\* Windows adapters pass the same outcome to the completion callback: the
\* same emptiness of the error string, the same choice between engine error
\* and decoder error, and the same emptiness of the value.
C38_SameOutcomeOnEveryAdapter ==
    (last.op = "evaluationComplete" /\ last.handlerCalled) =>
        \A p \in Platforms :
            SameOutcome([error |-> last.error, value |-> last.value],
                        CompletionArguments(p, last.report))

\* The engine reported an error and no result: the Linux adapter passed its
\* own text to the handler where the Windows adapter passes the engine's
\* message.
C38_LinuxPassedItsOwnText ==
    /\ last.op = "evaluationComplete"
    /\ last.handlerCalled
    /\ platform = "linux"
    /\ last.report = [error |-> EngineErrorMessage, result |-> "absent"]
    /\ last.error = "Failed to fetch result"
    /\ CompletionArguments("windows", last.report).error = EngineErrorMessage
    /\ CompletionArguments("apple", last.report).error = EngineErrorMessage

====
